---- MODULE Spec2Model ----
(***************************************************************************)
(* A model of PyCNL: the Namespace tree (python/pycnl/namespace.py), its   *)
(* pending incoming interest table and the SegmentStreamHandler.           *)
(*                                                                         *)
(* A Name is a sequence of components; a component is an integer: a        *)
(* segment number when it is >= 0, and a reserved marker (_manifest) when  *)
(* it is negative.  The root of the tree has the empty name.  Every        *)
(* Python method is an operator from a "world" record (the whole program   *)
(* state) to the world after the call, because callbacks run synchronously *)
(* inside the call that fires them.                                        *)
(***************************************************************************)
EXTENDS Integers, Sequences, FiniteSets, Bags, TLC

VARIABLES
    nodes,                              \* the names of the Namespace nodes that exist
    state,                              \* node -> Namespace._state
    validateState,                      \* node -> Namespace._validateState
    data,                               \* node -> Namespace._data (NoData for None)
    object,                             \* node -> Namespace._object (NoObject for None)
    freshnessExpiry,                    \* node -> _freshnessExpiryTimeMilliseconds (NoTime for None)
    signingError,                       \* node -> TRUE when _signingError is not ""
    decryptionError,                    \* node -> TRUE when _decryptionError is not ""
    networkNack,                        \* node -> Namespace._networkNack (NoNack for None)
    decryptor,                          \* node -> Namespace._decryptor (NoDecryptor for None)
    maxInterestLifetime,                \* node -> Namespace._maxInterestLifetime (NoTime for None)
    ownFace,                            \* node -> Namespace._face (NoFace for None)
    keyChain,                           \* node -> Namespace._keyChain (NoKeyChain for None)
    newDataMetaInfo,                    \* node -> Namespace._newDataMetaInfo (NoMetaInfo for None)
    ownHandler,                         \* node -> Namespace._handler (NoOwnHandler for None)
    blobs,                              \* the byte strings of the Blobs made so far: a Blob
                                        \* whose bytes are read is the number of its entry
    decrypting,                         \* the decrypt calls that the decryptor has not answered yet
    onStateChangedCallbacks,            \* node -> the keys of the dict, in insertion order
    onValidateStateChangedCallbacks,    \* node -> the keys of the dict, in insertion order
    onObjectNeededCallbacks,            \* node -> the keys of the dict, in insertion order
    callback,                           \* callback ID -> what the registered function does
    lastCallbackId,                     \* Namespace._lastCallbackId
    threads,                            \* Namespace._lastCallbackIdLock and the threads inside
                                        \* a registration: where each is and what it holds
    table,                              \* the root's _pendingIncomingInterestTable
    face,                               \* the Face: the interests expressed and not yet answered,
                                        \* and the signature type of the producer behind it
    handler,                            \* the SegmentStreamHandler
    stream,                             \* the SegmentStream (segment_stream.py)
    reported,                           \* onSegment callback ID -> the arguments it was called with
    consumer,                           \* the consumer of test_generalized_object: whether it has
                                        \* started, and theReceivedObject as the calls of its
                                        \* onGeneralizedObject, each <<contentMetaInfo, object>>
    producer,                           \* the producer of test_generalized_object_stream_producer:
                                        \* whether it has started
    removed,                            \* the <<node, callback ID>> the application has passed to removeCallback
    log,                                \* what the last operation did, in order
    fanout,                             \* how many _setState/_setValidateState calls the last operation made
    now,                                \* Common.getNowMilliseconds()
    exception,                          \* TRUE when an exception has left the last operation
    lastOp                              \* the last operation of the application or the face

vars == <<nodes, state, validateState, data, object, freshnessExpiry, signingError,
          decryptionError, networkNack, decryptor, maxInterestLifetime, ownFace,
          keyChain, newDataMetaInfo, ownHandler, blobs, threads, stream, decrypting,
          onStateChangedCallbacks, onValidateStateChangedCallbacks,
          onObjectNeededCallbacks, callback, lastCallbackId, table, face, handler,
          reported, consumer, producer, removed, log, fanout, now, exception, lastOp>>

(***************************** bounds ***************************************)
MaxSegment == 2         \* the final segment number N of the stream
MaxCallbacks == 2       \* how many callbacks the application registers on the tree
MaxOnSegment == 2       \* how many onSegment callbacks the application adds
MaxTime == 1            \* how far the clock advances
MaxPending == 2         \* how many incoming interests arrive
MaxInterests == 2       \* how many expressed interests wait in the face when the application asks
MaxRemoved == 1         \* how many times the application calls removeCallback itself
MaxEntries == 3         \* how many interests are added to the pending incoming interest table

(************************* NamespaceState ***********************************)
NAME_EXISTS == 0
INTEREST_EXPRESSED == 1
INTEREST_TIMEOUT == 2
INTEREST_NETWORK_NACK == 3
DATA_RECEIVED == 4
DESERIALIZING == 5
DECRYPTING == 6
DECRYPTION_ERROR == 7
PRODUCING_OBJECT == 8
SIGNING == 12
SIGNING_ERROR == 13
OBJECT_READY == 14

(********************** NamespaceValidateState ******************************)
WAITING_FOR_DATA == 0
VALIDATING == 1

(****************************** values **************************************)
NoData == [none |-> TRUE]
NoObject == 0           \* an object is the content of a Blob, a positive number
NoTime == -1
NoSegment == -1         \* _finalSegmentNumber = None; also the end of stream, onSegment(None)
NoNamespace == <<-100>>
NoNack == "none"        \* _networkNack = None
NoDecryptor == [none |-> TRUE]          \* _decryptor = None
NAME_COMPONENT_MANIFEST == -1
NAME_COMPONENT_LATEST == -3
NAME_COMPONENT_META == -2
OnSegmentMethod == <<-101>>             \* the bound method self._onSegment, which is no Namespace
NoFace == 0             \* _face = None; a Face is a positive number
NoKeyChain == 0         \* _keyChain = None; a KeyChain is a positive number
NoMetaInfo == -2        \* _newDataMetaInfo = None; a MetaInfo is its freshness period,
                        \* NoTime when the MetaInfo has none
NoOwnHandler == 0       \* _handler = None; a Handler is a positive number

Root == <<>>
Parent(n) == SubSeq(n, 1, Len(n) - 1)
IsPrefixOf(a, b) == Len(a) <= Len(b) /\ SubSeq(b, 1, Len(a)) = a
IsSegment(c) == c >= 0
Range(s) == {s[i] : i \in 1..Len(s)}
Without(s, x) == SelectSeq(s, LAMBDA y : y # x)
IndexOf(s, x) == CHOOSE i \in 1..Len(s) : s[i] = x

\* The chain a notification walks: the node itself, then each parent up to the root.
RECURSIVE Ancestors(_)
Ancestors(n) == IF n = Root THEN <<n>> ELSE <<n>> \o Ancestors(Parent(n))

\* An entry of the log.
Event(ev, id, at, node, val, fo) ==
    [ev |-> ev, id |-> id, at |-> at, node |-> node, val |-> val, fo |-> fo]

Logged(w, e) == [w EXCEPT !.log = Append(@, e)]

World ==
    [nodes |-> nodes, state |-> state, validateState |-> validateState, data |-> data,
     object |-> object, freshnessExpiry |-> freshnessExpiry,
     signingError |-> signingError, decryptionError |-> decryptionError,
     networkNack |-> networkNack, decryptor |-> decryptor,
     maxInterestLifetime |-> maxInterestLifetime, ownFace |-> ownFace,
     keyChain |-> keyChain, newDataMetaInfo |-> newDataMetaInfo,
     ownHandler |-> ownHandler, blobs |-> blobs, threads |-> threads, stream |-> stream,
     decrypting |-> decrypting,
     onStateChangedCallbacks |-> onStateChangedCallbacks,
     onValidateStateChangedCallbacks |-> onValidateStateChangedCallbacks,
     onObjectNeededCallbacks |-> onObjectNeededCallbacks,
     callback |-> callback, lastCallbackId |-> lastCallbackId, table |-> table,
     face |-> face, handler |-> handler, reported |-> reported, consumer |-> consumer,
     producer |-> producer,
     removed |-> removed,
     log |-> <<>>, fanout |-> 0, now |-> now, exception |-> FALSE]

CommitWorld(w) ==
    /\ nodes' = w.nodes
    /\ state' = w.state
    /\ validateState' = w.validateState
    /\ data' = w.data
    /\ object' = w.object
    /\ freshnessExpiry' = w.freshnessExpiry
    /\ signingError' = w.signingError
    /\ decryptionError' = w.decryptionError
    /\ networkNack' = w.networkNack
    /\ decryptor' = w.decryptor
    /\ maxInterestLifetime' = w.maxInterestLifetime
    /\ ownFace' = w.ownFace
    /\ keyChain' = w.keyChain
    /\ newDataMetaInfo' = w.newDataMetaInfo
    /\ ownHandler' = w.ownHandler
    /\ blobs' = w.blobs
    /\ threads' = w.threads
    /\ stream' = w.stream
    /\ decrypting' = w.decrypting
    /\ onStateChangedCallbacks' = w.onStateChangedCallbacks
    /\ onValidateStateChangedCallbacks' = w.onValidateStateChangedCallbacks
    /\ onObjectNeededCallbacks' = w.onObjectNeededCallbacks
    /\ callback' = w.callback
    /\ lastCallbackId' = w.lastCallbackId
    /\ table' = w.table
    /\ face' = w.face
    /\ handler' = w.handler
    /\ reported' = w.reported
    /\ consumer' = w.consumer
    /\ producer' = w.producer
    /\ removed' = w.removed
    /\ log' = w.log
    /\ fanout' = w.fanout
    /\ now' = w.now
    /\ exception' = w.exception

\* The step of an operation that ends in world w; op names the operation when the
\* claims checked need to know it.
Commit(w) == CommitWorld(w) /\ UNCHANGED lastOp
CommitOp(w, op) == CommitWorld(w) /\ lastOp' = op

(***************************************************************************)
(* Callbacks.  callback[id] says what the function registered under id     *)
(* does when it is called:                                                  *)
(*   owner    "app" (an application's function) or "handler" (a method of   *)
(*            the SegmentStreamHandler)                                     *)
(*   removes  the callback ID it passes to namespace.removeCallback, or 0   *)
(*   raises   whether it then raises an exception                           *)
(*   produces what it returns when it is an onObjectNeeded callback         *)
(***************************************************************************)
NoCallback == 0

AppFunction(removes, raises, produces) ==
    [owner |-> "app", removes |-> removes, raises |-> raises, produces |-> produces]

HandlerMethod ==
    [owner |-> "handler", removes |-> NoCallback, raises |-> FALSE, produces |-> FALSE]

\* An onObjectNeeded callback of the application that produces the object during
\* the callback: it calls neededNamespace.serializeObject(obj) and returns True.
AppProducer ==
    [owner |-> "producer", removes |-> NoCallback, raises |-> FALSE, produces |-> TRUE]

\* None where a function is expected.
NoFunction ==
    [owner |-> "none", removes |-> NoCallback, raises |-> FALSE, produces |-> FALSE]

RECURSIVE GetChild(_, _, _)
RECURSIVE SetState(_, _, _)
RECURSIVE NotifyStateChanged(_, _, _, _, _)
RECURSIVE FireOnStateChangedFrom(_, _, _, _, _, _, _)
RECURSIVE NotifyValidateStateChanged(_, _, _, _, _)
RECURSIVE FireOnValidateStateChangedFrom(_, _, _, _, _, _, _)
RECURSIVE FireOnObjectNeededFrom(_, _, _, _, _, _)
RECURSIVE AskObjectNeeded(_, _, _, _)
RECURSIVE ObjectNeeded(_, _, _)
RECURSIVE FindBestMatchName(_, _, _, _)
RECURSIVE BestChildMatch(_, _, _, _, _, _)
RECURSIVE SatisfyFrom(_, _, _)
RECURSIVE SortedSeq(_)
RECURSIVE ReportSegments(_)
RECURSIVE CountRequested(_, _, _, _, _)
RECURSIVE RequestFrom(_, _, _, _)
RECURSIVE FireOnSegmentFrom(_, _, _, _)
RECURSIVE HandlerOnStateChanged(_, _, _, _, _)
RECURSIVE HandlerOnObjectNeeded(_, _, _, _)
RECURSIVE GetKeyChain(_, _)
RECURSIVE SerializeObject(_, _, _, _)
RECURSIVE GetNewDataMetaInfo(_, _)

\* The value of a local variable, computed once: Only({F(x) : x \in {e}}) is F(e).
Only(S) == CHOOSE x \in S : TRUE

\* The threads of the application, none of them inside a registration, and the
\* lock free.
Threads == {1, 2}
NoThreads ==
    [lock |-> 0, pc |-> [t \in Threads |-> "idle"], kind |-> [t \in Threads |-> "none"],
     node |-> [t \in Threads |-> Root], local |-> [t \in Threads |-> 0],
     result |-> [t \in Threads |-> 0], returned |-> <<>>]

\* Namespace.getNextCallbackId when one thread runs at a time.
GetNextCallbackId(w) == [w EXCEPT !.lastCallbackId = @ + 1]

\* Namespace.addOnStateChanged: the world afterwards; the ID returned is its lastCallbackId.
AddOnStateChanged(w, self, fn) ==
    LET w1 == GetNextCallbackId(w)
        callbackId == w1.lastCallbackId
    IN [w1 EXCEPT !.onStateChangedCallbacks[self] = Append(@, callbackId),
                  !.callback = @ @@ (callbackId :> fn)]

\* Namespace.addOnValidateStateChanged
AddOnValidateStateChanged(w, self, fn) ==
    LET w1 == GetNextCallbackId(w)
        callbackId == w1.lastCallbackId
    IN [w1 EXCEPT !.onValidateStateChangedCallbacks[self] = Append(@, callbackId),
                  !.callback = @ @@ (callbackId :> fn)]

\* Namespace.addOnObjectNeeded
AddOnObjectNeeded(w, self, fn) ==
    LET w1 == GetNextCallbackId(w)
        callbackId == w1.lastCallbackId
    IN [w1 EXCEPT !.onObjectNeededCallbacks[self] = Append(@, callbackId),
                  !.callback = @ @@ (callbackId :> fn)]

\* Namespace.removeCallback: pops the ID from the onStateChanged and the
\* onValidateStateChanged dictionaries (and from no other).
RemoveCallback(w, self, callbackId) ==
    [w EXCEPT !.log = Append(@, Event("removeCallback", callbackId, self, self, 0, 0)),
              !.onStateChangedCallbacks[self] = Without(@, callbackId),
              !.onValidateStateChangedCallbacks[self] = Without(@, callbackId)]

\* A callback raises an exception.
Raise(w) == [w EXCEPT !.exception = TRUE]

RaiseIf(raises, w) == IF raises THEN Raise(w) ELSE w

\* "except: logging.exception(...)": the exception is logged and goes no further.
Caught(w) == [w EXCEPT !.exception = FALSE]

\* What an application's callback registered at `namespace` does to the tree:
\* it removes a callback when callback[id].removes says so, and then raises
\* when callback[id].raises.
AppCallback(w, id, namespace) ==
    RaiseIf(w.callback[id].raises,
            IF w.callback[id].removes # NoCallback
            THEN RemoveCallback(w, namespace, w.callback[id].removes)
            ELSE w)

\* The call self._onStateChangedCallbacks[id](self, changedNamespace, state, id).
CallOnStateChanged(w, self, changedNamespace, st, id) ==
    IF w.callback[id].owner = "handler"
    THEN HandlerOnStateChanged(w, self, changedNamespace, st, id)
    ELSE AppCallback(w, id, self)

\* _fireOnStateChanged without "if id in self._onStateChangedCallbacks".
FireOnStateChangedUnchecked(w, self, changedNamespace, st, fo, keys, i) ==
    IF i > Len(keys) THEN w
    ELSE FireOnStateChangedFrom(
             Caught(CallOnStateChanged(
                        Logged(w, Event("state", keys[i], self, changedNamespace, st, fo)),
                        self, changedNamespace, st, keys[i])),
             self, changedNamespace, st, fo, keys, i + 1)

\* Namespace._fireOnStateChanged: keys is list(self._onStateChangedCallbacks.keys()),
\* copied before the loop; the callback under keys[i] is called when the ID is
\* still in the dictionary; an exception it raises is caught and logged.
FireOnStateChangedFrom(w, self, changedNamespace, st, fo, keys, i) ==
    IF i > Len(keys) THEN w
    ELSE IF keys[i] \notin Range(w.onStateChangedCallbacks[self])
    THEN FireOnStateChangedFrom(w, self, changedNamespace, st, fo, keys, i + 1)
    ELSE FireOnStateChangedFrom(
             Caught(CallOnStateChanged(
                        Logged(w, Event("state", keys[i], self, changedNamespace, st, fo)),
                        self, changedNamespace, st, keys[i])),
             self, changedNamespace, st, fo, keys, i + 1)

\* _fireOnStateChanged that goes through the keys from the last to the first.
FireOnStateChangedBackwards(w, self, changedNamespace, st, fo) ==
    LET keys == w.onStateChangedCallbacks[self]
    IN FireOnStateChangedFrom(w, self, changedNamespace, st, fo,
                              [i \in 1..Len(keys) |-> keys[Len(keys) + 1 - i]], 1)

FireOnStateChanged(w, self, changedNamespace, st, fo) ==
    FireOnStateChangedFrom(w, self, changedNamespace, st, fo,
                           w.onStateChangedCallbacks[self], 1)

\* _setState that calls the callbacks of the node only.
NotifyOwnListeners(w, namespace, changedNamespace, st, fo) ==
    FireOnStateChanged(w, namespace, changedNamespace, st, fo)

\* The loop of Namespace._setState: this node, then each parent up to the root.
NotifyStateChanged(w, namespace, changedNamespace, st, fo) ==
    Only({IF namespace = Root THEN w1
          ELSE NotifyStateChanged(w1, Parent(namespace), changedNamespace, st, fo) :
          w1 \in {FireOnStateChanged(w, namespace, changedNamespace, st, fo)}})

\* Namespace._setState
SetState(w, self, st) ==
    NotifyStateChanged(
        Logged([w EXCEPT !.state[self] = st, !.fanout = @ + 1],
               Event("setState", NoCallback, self, self, st, w.fanout + 1)),
        self, self, st, w.fanout + 1)

\* Namespace._fireOnValidateStateChanged
FireOnValidateStateChangedFrom(w, self, changedNamespace, vs, fo, keys, i) ==
    IF i > Len(keys) THEN w
    ELSE IF keys[i] \notin Range(w.onValidateStateChangedCallbacks[self])
    THEN FireOnValidateStateChangedFrom(w, self, changedNamespace, vs, fo, keys, i + 1)
    ELSE FireOnValidateStateChangedFrom(
             Caught(AppCallback(
                        Logged(w, Event("validate", keys[i], self, changedNamespace, vs, fo)),
                        keys[i], self)),
             self, changedNamespace, vs, fo, keys, i + 1)

FireOnValidateStateChanged(w, self, changedNamespace, vs, fo) ==
    FireOnValidateStateChangedFrom(w, self, changedNamespace, vs, fo,
                                   w.onValidateStateChangedCallbacks[self], 1)

NotifyValidateStateChanged(w, namespace, changedNamespace, vs, fo) ==
    Only({IF namespace = Root THEN w1
          ELSE NotifyValidateStateChanged(w1, Parent(namespace), changedNamespace, vs, fo) :
          w1 \in {FireOnValidateStateChanged(w, namespace, changedNamespace, vs, fo)}})

\* Namespace._setValidateState
SetValidateState(w, self, vs) ==
    NotifyValidateStateChanged(
        Logged([w EXCEPT !.validateState[self] = vs, !.fanout = @ + 1],
               Event("setValidateState", NoCallback, self, self, vs, w.fanout + 1)),
        self, self, vs, w.fanout + 1)

\* What an AppProducer does when it is called: serializeObject raises when
\* neither the node nor a parent has a KeyChain, and the callback with it.
ProducedObject == 3
AppProduces(w, neededNamespace) ==
    IF GetKeyChain(w, neededNamespace) = NoKeyChain
    THEN [w |-> Raise(w), result |-> FALSE]
    ELSE [w |-> SerializeObject(w, neededNamespace, ProducedObject, TRUE), result |-> TRUE]

\* The call self._onObjectNeededCallbacks[id](self, neededNamespace, id): the world
\* afterwards and the result; a callback that raises returns nothing.
CallOnObjectNeeded(w, self, neededNamespace, id) ==
    IF w.callback[id].owner = "handler"
    THEN HandlerOnObjectNeeded(w, self, neededNamespace, id)
    ELSE IF w.callback[id].owner = "producer"
    THEN AppProduces(w, neededNamespace)
    ELSE [w |-> AppCallback(w, id, self),
          result |-> (~w.callback[id].raises /\ w.callback[id].produces)]

\* _fireOnObjectNeeded that returns at the first callback that returns True.
FireOnObjectNeededUntilTrue(w, self, neededNamespace, keys, i, canProduce) ==
    IF i > Len(keys) \/ canProduce THEN [w |-> w, canProduce |-> canProduce]
    ELSE IF keys[i] \notin Range(w.onObjectNeededCallbacks[self])
    THEN FireOnObjectNeededFrom(w, self, neededNamespace, keys, i + 1, canProduce)
    ELSE Only({FireOnObjectNeededFrom(Caught(r.w), self, neededNamespace, keys, i + 1,
                                      canProduce \/ r.result) :
               r \in {CallOnObjectNeeded(
                          Logged(w, Event("needed", keys[i], self, neededNamespace, 0, 0)),
                          self, neededNamespace, keys[i])}})

\* Namespace._fireOnObjectNeeded: the world afterwards and the canProduce it returns.
FireOnObjectNeededFrom(w, self, neededNamespace, keys, i, canProduce) ==
    IF i > Len(keys) THEN [w |-> w, canProduce |-> canProduce]
    ELSE IF keys[i] \notin Range(w.onObjectNeededCallbacks[self])
    THEN FireOnObjectNeededFrom(w, self, neededNamespace, keys, i + 1, canProduce)
    ELSE Only({FireOnObjectNeededFrom(Caught(r.w), self, neededNamespace, keys, i + 1,
                                      canProduce \/ r.result) :
               r \in {CallOnObjectNeeded(
                          Logged(w, Event("needed", keys[i], self, neededNamespace, 0, 0)),
                          self, neededNamespace, keys[i])}})

FireOnObjectNeeded(w, self, neededNamespace) ==
    FireOnObjectNeededFrom(w, self, neededNamespace, w.onObjectNeededCallbacks[self],
                           1, FALSE)

\* The loop of objectNeeded and of _onInterest that asks the callbacks of the
\* node and of every parent.
AskObjectNeeded(w, namespace, neededNamespace, canProduce) ==
    Only({IF namespace = Root
          THEN [w |-> r.w, canProduce |-> canProduce \/ r.canProduce]
          ELSE AskObjectNeeded(r.w, Parent(namespace), neededNamespace,
                               canProduce \/ r.canProduce) :
          r \in {FireOnObjectNeeded(w, namespace, neededNamespace)}})

\* Namespace.__init__ of a child, added to the _children of its parent.
NewChild(w, child) ==
    [w EXCEPT !.nodes = @ \cup {child},
              !.state = @ @@ (child :> NAME_EXISTS),
              !.validateState = @ @@ (child :> WAITING_FOR_DATA),
              !.data = @ @@ (child :> NoData),
              !.object = @ @@ (child :> NoObject),
              !.freshnessExpiry = @ @@ (child :> NoTime),
              !.signingError = @ @@ (child :> FALSE),
              !.decryptionError = @ @@ (child :> FALSE),
              !.networkNack = @ @@ (child :> NoNack),
              !.decryptor = @ @@ (child :> NoDecryptor),
              !.maxInterestLifetime = @ @@ (child :> NoTime),
              !.ownFace = @ @@ (child :> NoFace),
              !.keyChain = @ @@ (child :> NoKeyChain),
              !.newDataMetaInfo = @ @@ (child :> NoMetaInfo),
              !.ownHandler = @ @@ (child :> NoOwnHandler),
              !.onStateChangedCallbacks = @ @@ (child :> <<>>),
              !.onValidateStateChangedCallbacks = @ @@ (child :> <<>>),
              !.onObjectNeededCallbacks = @ @@ (child :> <<>>)]

\* _createChild that calls the callbacks whatever fireCallbacks is.
CreateChildAndFire(w, self, component, fireCallbacks) ==
    SetState(NewChild(w, Append(self, component)), Append(self, component), NAME_EXISTS)

\* Namespace._createChild
CreateChild(w, self, component, fireCallbacks) ==
    IF fireCallbacks
    THEN SetState(NewChild(w, Append(self, component)), Append(self, component), NAME_EXISTS)
    ELSE NewChild(w, Append(self, component))

\* Namespace.getChild(Name): the world afterwards; the node returned is
\* descendantName.  `self` is the node the loop has descended to.
GetChild(w, self, descendantName) ==
    IF Len(self) >= Len(descendantName) THEN w
    ELSE LET nextComponent == descendantName[Len(self) + 1]
             next == Append(self, nextComponent)
         IN IF next \in w.nodes
            THEN GetChild(w, next, descendantName)
            ELSE LET isLeaf == (Len(self) = Len(descendantName) - 1)
                 IN GetChild(CreateChild(w, self, nextComponent, isLeaf),
                             next, descendantName)

\* Namespace.getChild(component)
GetChildComponent(w, self, component) ==
    IF Append(self, component) \in w.nodes THEN w
    ELSE CreateChild(w, self, component, TRUE)

\* Namespace.getChildComponents: _sortedChildrenKeys, which _createChild keeps sorted.
SortedSeq(S) ==
    IF S = {} THEN <<>>
    ELSE LET m == CHOOSE x \in S : \A y \in S : x <= y
         IN <<m>> \o SortedSeq(S \ {m})

GetChildComponents(w, self) ==
    SortedSeq({n[Len(n)] : n \in {m \in w.nodes : Len(m) = Len(self) + 1 /\ Parent(m) = self}})

(***************************************************************************)
(* Packets.  An Interest is [name, mustBeFresh, lifetime, nonce]; a Data    *)
(* packet is [name, content, freshnessPeriod, finalBlockId, signature].     *)
(***************************************************************************)
InterestLifetime == 4000
DefaultMaxInterestLifetime == 16000

Interest(name, mustBeFresh, lifetime, nonce) ==
    [name |-> name, mustBeFresh |-> mustBeFresh, lifetime |-> lifetime, nonce |-> nonce]

Data(name, content, freshnessPeriod, finalBlockId, signature) ==
    [name |-> name, content |-> content, freshnessPeriod |-> freshnessPeriod,
     finalBlockId |-> finalBlockId, signature |-> signature]

\* Interest.matchesName and Interest.matchesData for an interest without selectors.
MatchesName(interest, name) == IsPrefixOf(interest.name, name)
MatchesData(interest, dat) == MatchesName(interest, dat.name)

RemoveAt(s, i) == SubSeq(s, 1, i - 1) \o SubSeq(s, i + 1, Len(s))

(******************** PendingIncomingInterestTable **************************)
\* PendingIncomingInterestTable.Entry.__init__
Entry(interest, faceId, nowMilliseconds) ==
    [interest |-> interest, face |-> faceId,
     timeoutTime |-> IF interest.lifetime >= 0 THEN nowMilliseconds + interest.lifetime
                     ELSE NoTime]

\* An isTimedOut that does not test whether the entry has a timeout time.
IsTimedOutWithoutSign(entry, nowMilliseconds) ==
    nowMilliseconds >= entry.timeoutTime

\* PendingIncomingInterestTable.Entry.isTimedOut
IsTimedOut(entry, nowMilliseconds) ==
    entry.timeoutTime >= 0 /\ nowMilliseconds >= entry.timeoutTime

\* PendingIncomingInterestTable.add
TableAdd(w, interest, faceId) ==
    [w EXCEPT !.table.entries = Append(@, Entry(interest, faceId, w.now))]

\* Whether Face.send of the face raises: the faces with a negative ID have lost
\* their connection.
FaceSendRaises(faceId) == faceId < 0

\* pendingInterest.getFace().send(data.wireEncode()); the last field of the
\* event is 1 when send raised.
FaceSend(w, entry, dat) ==
    RaiseIf(FaceSendRaises(entry.face),
            Logged(w, Event("send", entry.interest.nonce, Root, dat.name, dat.content,
                            IF FaceSendRaises(entry.face) THEN 1 ELSE 0)))

\* satisfyInterests without try/except around send: the exception ends the loop.
SatisfyFromUncaught(w, dat, i) ==
    IF i < 1 THEN w
    ELSE IF IsTimedOut(w.table.entries[i], w.now)
    THEN SatisfyFrom([w EXCEPT !.table.entries = RemoveAt(@, i)], dat, i - 1)
    ELSE IF MatchesName(w.table.entries[i].interest, dat.name)
    THEN Only({IF w1.exception THEN w1
               ELSE SatisfyFrom([w1 EXCEPT !.table.entries = RemoveAt(@, i)], dat, i - 1) :
               w1 \in {FaceSend(w, w.table.entries[i], dat)}})
    ELSE SatisfyFrom(w, dat, i - 1)

\* The loop of PendingIncomingInterestTable.satisfyInterests, from index i down.
\* Face.send may raise: the exception is caught and the entry is removed all the same.
SatisfyFrom(w, dat, i) ==
    IF i < 1 THEN w
    ELSE IF IsTimedOut(w.table.entries[i], w.now)
    THEN SatisfyFrom([w EXCEPT !.table.entries = RemoveAt(@, i)], dat, i - 1)
    ELSE IF MatchesName(w.table.entries[i].interest, dat.name)
    THEN SatisfyFrom([Caught(FaceSend(w, w.table.entries[i], dat)) EXCEPT
                         !.table.entries = RemoveAt(@, i)],
                     dat, i - 1)
    ELSE SatisfyFrom(w, dat, i - 1)

\* PendingIncomingInterestTable.satisfyInterests
SatisfyInterests(w, dat) == SatisfyFrom(w, dat, Len(w.table.entries))

(****************************** Namespace ***********************************)
\* What Namespace.setData returns: True when it attaches the packet, False when a
\* Data packet was already attached.
SetDataReturns(w, self, dat) == w.data[self] = NoData

\* setData without the check for an attached packet.
SetDataAgain(w, self, dat) ==
    [(IF w.table.exists THEN SatisfyInterests(w, dat) ELSE w) EXCEPT
        !.freshnessExpiry[self] = NoTime, !.data[self] = dat]

\* setData that also announces DATA_RECEIVED.
SetDataAndState(w, self, dat) ==
    IF w.data[self] # NoData THEN w
    ELSE SetState([w EXCEPT !.data[self] = dat], self, DATA_RECEIVED)

\* Namespace.setData: the world afterwards.  The caller gives a packet whose name
\* is the node's.
SetData(w, self, dat) ==
    IF w.data[self] # NoData THEN w
    ELSE [(IF w.table.exists THEN SatisfyInterests(w, dat) ELSE w) EXCEPT
             !.freshnessExpiry[self] =
                 IF dat.freshnessPeriod # NoTime /\ dat.freshnessPeriod >= 0
                 THEN w.now + dat.freshnessPeriod
                 ELSE NoTime,
             !.data[self] = dat]

\* The loop of Namespace._findBestMatchName over the children, last key first.
BestChildMatch(w, namespace, interest, keys, i, bestMatch) ==
    IF i < 1 THEN bestMatch
    ELSE Only({IF childBestMatch # NoNamespace /\
                  (bestMatch = NoNamespace \/ Len(childBestMatch) >= Len(bestMatch))
               THEN BestChildMatch(w, namespace, interest, keys, i - 1, childBestMatch)
               ELSE BestChildMatch(w, namespace, interest, keys, i - 1, bestMatch) :
               childBestMatch \in {FindBestMatchName(w, Append(namespace, keys[i]),
                                                     interest, w.now)}})

\* Namespace._findBestMatchName
FindBestMatchName(w, namespace, interest, nowMilliseconds) ==
    Only({IF bestMatch # NoNamespace THEN bestMatch
          ELSE IF interest.mustBeFresh /\ w.freshnessExpiry[namespace] # NoTime /\
                  nowMilliseconds >= w.freshnessExpiry[namespace]
          THEN NoNamespace
          ELSE IF w.data[namespace] # NoData /\ MatchesData(interest, w.data[namespace])
          THEN namespace
          ELSE NoNamespace :
          bestMatch \in {BestChildMatch(w, namespace, interest,
                                        GetChildComponents(w, namespace),
                                        Len(GetChildComponents(w, namespace)),
                                        NoNamespace)}})

\* _getMaxInterestLifetime that does not look at the parents.
GetOwnMaxInterestLifetime(w, namespace) ==
    IF w.maxInterestLifetime[namespace] # NoTime THEN w.maxInterestLifetime[namespace]
    ELSE DefaultMaxInterestLifetime

\* Namespace._getMaxInterestLifetime: the setting of the node or of the nearest
\* parent that has one, and the default otherwise.
RECURSIVE GetMaxInterestLifetime(_, _)
GetMaxInterestLifetime(w, namespace) ==
    IF w.maxInterestLifetime[namespace] # NoTime THEN w.maxInterestLifetime[namespace]
    ELSE IF namespace = Root THEN DefaultMaxInterestLifetime
    ELSE GetMaxInterestLifetime(w, Parent(namespace))

\* Namespace.setMaxInterestLifetime
SetMaxInterestLifetime(w, self, lifetime) ==
    [w EXCEPT !.maxInterestLifetime[self] = lifetime]

\* An interest as it waits in the face: the interest, with whether an
\* onNetworkNack was given to expressInterest and the maxInterestLifetime given
\* to ExponentialReExpress.makeOnTimeout.
PendingInterest(interest, onNetworkNack, maxLifetime) ==
    [name |-> interest.name, mustBeFresh |-> interest.mustBeFresh,
     lifetime |-> interest.lifetime, nonce |-> interest.nonce,
     onNetworkNack |-> onNetworkNack, maxInterestLifetime |-> maxLifetime]

\* Face.expressInterest as objectNeeded calls it: the interest waits in the face
\* for Data, a timeout or a nack.
ExpressInterest(w, interest) ==
    [w EXCEPT !.log = Append(@, Event("express", 0, Root, interest.name, 0, 0)),
              !.face.interests =
                  @ (+) SetToBag({PendingInterest(interest, TRUE,
                                                  GetMaxInterestLifetime(w, interest.name))})]

\* onTimeout of objectNeeded
OnTimeout(w, self) == SetState(w, self, INTEREST_TIMEOUT)

\* An onNetworkNack that sets the state and does not keep the nack.
OnNetworkNackForgets(w, self, nack) == SetState(w, self, INTEREST_NETWORK_NACK)

\* onNetworkNack of objectNeeded
OnNetworkNack(w, self, nack) ==
    SetState([w EXCEPT !.networkNack[self] = nack], self, INTEREST_NETWORK_NACK)

\* The callback made by ExponentialReExpress.makeOnTimeout, which the face calls
\* with the interest that timed out and that it has removed from its pending
\* interests: the interest is expressed again with twice the lifetime, and
\* without an onNetworkNack, unless that exceeds the maximum; then onTimeout
\* of objectNeeded is called.
ReExpressOnTimeout(w, pending) ==
    IF pending.lifetime * 2 > pending.maxInterestLifetime
    THEN OnTimeout(w, pending.name)
    ELSE [w EXCEPT !.face.interests =
                       @ (+) SetToBag({[pending EXCEPT !.lifetime = @ * 2,
                                                       !.onNetworkNack = FALSE]})]

\* Namespace.objectNeeded after the check for an object: ask the onObjectNeeded
\* callbacks, then either PRODUCING_OBJECT or INTEREST_EXPRESSED and the interest.
ProduceOrExpressInterest(w, self, interest) ==
    Only({IF r.canProduce
          THEN SetState(r.w, self, PRODUCING_OBJECT)
          ELSE ExpressInterest(SetState(r.w, self, INTEREST_EXPRESSED), interest) :
          r \in {AskObjectNeeded(w, self, self, FALSE)}})

\* Namespace.objectNeeded.  A face has been set on the root.
ObjectNeeded(w, self, mustBeFresh) ==
    Only({IF bestMatch # NoNamespace /\ w.object[bestMatch] # NoObject
          THEN SetState(w, bestMatch, OBJECT_READY)
          ELSE ProduceOrExpressInterest(w, self,
                                        Interest(self, mustBeFresh, InterestLifetime, 0)) :
          bestMatch \in {FindBestMatchName(w, self,
                                           Interest(self, mustBeFresh, InterestLifetime, 0),
                                           w.now)}})

\* Namespace._setObject
SetObject(w, self, obj) ==
    SetState([w EXCEPT !.object[self] = obj], self, OBJECT_READY)

\* Namespace._defaultOnDeserialized (onObjectSet is None)
DefaultOnDeserialized(w, self, obj) ==
    SetState([w EXCEPT !.object[self] = obj], self, OBJECT_READY)

\* Namespace.Handler._canDeserialize, which SegmentStreamHandler does not override.
CanDeserialize(w, objectNamespace, blob) == FALSE

\* Namespace._deserialize: ask the handler of this node and of each parent.
Deserialize(w, self, blob) ==
    IF \E i \in 1..Len(Ancestors(self)) :
          /\ w.handler.namespace = Ancestors(self)[i]
          /\ CanDeserialize(w, self, blob)
    THEN SetState(w, self, DESERIALIZING)
    ELSE DefaultOnDeserialized(w, self, blob)

\* Namespace._getDecryptor: the decryptor of the node or of the nearest parent
\* that has one.
RECURSIVE GetDecryptor(_, _)
GetDecryptor(w, namespace) ==
    IF w.decryptor[namespace] # NoDecryptor THEN w.decryptor[namespace]
    ELSE IF namespace = Root THEN NoDecryptor
    ELSE GetDecryptor(w, Parent(namespace))

\* Namespace.setDecryptor.  A decryptor is [succeeds, later]: whether it calls
\* onSuccess or onError, and whether it does so inside decrypt or later, when it
\* has fetched the key.
SetDecryptor(w, self, d) == [w EXCEPT !.decryptor[self] = d]

\* The content of a Data packet made by a producer that encrypts: the encoding
\* of an EncryptedContent of the plaintext.
EncryptedContentOf(plaintext) == plaintext + 100

\* Whether EncryptedContent.wireDecodeV2(data.content) returns, or raises.
IsEncryptedContent(content) == content > 100

\* The plaintext the decryptor passes to onSuccess.
PlaintextOf(content) == content - 100

\* _decryptionError = "..."; _setState(DECRYPTION_ERROR): the except branch of
\* _onData and its onError.
DecryptionError(w, dataNamespace) ==
    SetState([w EXCEPT !.decryptionError[dataNamespace] = TRUE],
             dataNamespace, DECRYPTION_ERROR)

\* A decryptor whose onSuccess is given the content of the Data packet as it came.
DecryptorAnswersRaw(w, dataNamespace, succeeds, content) ==
    IF succeeds
    THEN Deserialize(w, dataNamespace, content)
    ELSE DecryptionError(w, dataNamespace)

\* The decryptor answers: onSuccess is dataNamespace._deserialize.
DecryptorAnswers(w, dataNamespace, succeeds, content) ==
    IF succeeds
    THEN Deserialize(w, dataNamespace, PlaintextOf(content))
    ELSE DecryptionError(w, dataNamespace)

\* decryptor.decrypt(encryptedContent, dataNamespace._deserialize, onError)
Decrypt(w, dataNamespace, d, content) ==
    IF d.later
    THEN [w EXCEPT !.decrypting = @ \cup {[node |-> dataNamespace, content |-> content,
                                           succeeds |-> d.succeeds]}]
    ELSE DecryptorAnswers(w, dataNamespace, d.succeeds, content)

\* Namespace._onData after _setState(DECRYPTING): decode the content, then decrypt.
DecodeAndDecrypt(w, dataNamespace, d, content) ==
    IF ~IsEncryptedContent(content)
    THEN DecryptionError(w, dataNamespace)
    ELSE Decrypt(w, dataNamespace, d, content)

\* Namespace._onData after _setValidateState(VALIDATING): deserialize the content,
\* or decrypt it first when the node or a parent has a decryptor.
DecryptAndDeserialize(w, dataNamespace, content) ==
    Only({IF d = NoDecryptor
          THEN Deserialize(w, dataNamespace, content)
          ELSE DecodeAndDecrypt(SetState(w, dataNamespace, DECRYPTING),
                                dataNamespace, d, content) :
          d \in {GetDecryptor(w, dataNamespace)}})

\* _onData that goes on whatever setData returns.
OnDataAlways(w, self, interest, dat) ==
    DecryptAndDeserialize(
        SetValidateState(SetState(SetData(GetChild(w, self, dat.name), dat.name, dat),
                                  self, DATA_RECEIVED),
                         dat.name, VALIDATING),
        dat.name, dat.content)

\* _onData that announces DATA_RECEIVED before it attaches the packet.
OnDataStateFirst(w, self, interest, dat) ==
    Only({IF ~SetDataReturns(w1, dat.name, dat) THEN w1
          ELSE DecryptAndDeserialize(
                   SetValidateState(SetData(SetState(w1, self, DATA_RECEIVED),
                                            dat.name, dat),
                                    dat.name, VALIDATING),
                   dat.name, dat.content) :
          w1 \in {GetChild(w, self, dat.name)}})

\* _onData that sets VALIDATING before it announces DATA_RECEIVED.
OnDataValidatingFirst(w, self, interest, dat) ==
    Only({IF ~SetDataReturns(w1, dat.name, dat) THEN w1
          ELSE DecryptAndDeserialize(
                   SetState(SetValidateState(SetData(w1, dat.name, dat),
                                             dat.name, VALIDATING),
                            self, DATA_RECEIVED),
                   dat.name, dat.content) :
          w1 \in {GetChild(w, self, dat.name)}})

\* Namespace._onData; w1 is the world after dataNamespace = self[data.name].
OnData(w, self, interest, dat) ==
    Only({IF ~SetDataReturns(w1, dat.name, dat) THEN w1
          ELSE DecryptAndDeserialize(
                   SetValidateState(SetState(SetData(w1, dat.name, dat),
                                             self, DATA_RECEIVED),
                                    dat.name, VALIDATING),
                   dat.name, dat.content) :
          w1 \in {GetChild(w, self, dat.name)}})

\* Namespace.serializeObject, with a KeyChain; the packet gets the new-data
\* MetaInfo that the node or a parent holds.  signOk is whether
\* keyChain.sign(data) returns (TRUE) or raises (FALSE).
SerializeObject(w, self, obj, signOk) ==
    Only({IF ~signOk
          THEN SetState([w1 EXCEPT !.signingError[self] = TRUE], self, SIGNING_ERROR)
          ELSE SetObject(SetData(w1, self,
                                 Data(self, obj,
                                      IF GetNewDataMetaInfo(w, self) # NoMetaInfo
                                      THEN GetNewDataMetaInfo(w, self) ELSE NoTime,
                                      NoSegment, "Sha256WithRsa")),
                         self, obj) :
          w1 \in {SetState(w, self, SIGNING)}})

\* Namespace._onInterest after the search for a match: the interest waits in the
\* table and the onObjectNeeded callbacks are asked.
AddPendingAndAsk(w, interest, faceId) ==
    Only({IF r.canProduce THEN SetState(r.w, interest.name, PRODUCING_OBJECT) ELSE r.w :
          r \in {AskObjectNeeded(TableAdd(w, interest, faceId), interest.name,
                                 interest.name, FALSE)}})

\* Namespace._onInterest of the root, for an interest without an implicit digest.
OnInterest(w, self, interest, faceId) ==
    Only({Only({IF bestMatch # NoNamespace
                THEN Logged(w1, Event("putData", interest.nonce, Root, bestMatch,
                                      w1.data[bestMatch].content, 0))
                ELSE AddPendingAndAsk(w1, interest, faceId) :
                bestMatch \in {FindBestMatchName(w1, interest.name, interest, w1.now)}}) :
          w1 \in {GetChild(w, self, interest.name)}})

(******************* the settings a node passes down ***********************)
\* Namespace.setFace without onRegisterFailed
SetFace(w, self, f) == [w EXCEPT !.ownFace[self] = f]

\* Namespace._getFace
RECURSIVE GetFace(_, _)
GetFace(w, namespace) ==
    IF w.ownFace[namespace] # NoFace THEN w.ownFace[namespace]
    ELSE IF namespace = Root THEN NoFace
    ELSE GetFace(w, Parent(namespace))

\* Namespace.setKeyChain
SetKeyChain(w, self, k) == [w EXCEPT !.keyChain[self] = k]

\* _getKeyChain that asks the root only.
GetRootKeyChain(w, namespace) == w.keyChain[Root]

\* Namespace._getKeyChain
GetKeyChain(w, namespace) ==
    IF w.keyChain[namespace] # NoKeyChain THEN w.keyChain[namespace]
    ELSE IF namespace = Root THEN NoKeyChain
    ELSE GetKeyChain(w, Parent(namespace))

\* Namespace.setNewDataMetaInfo: the node keeps a copy, MetaInfo(metaInfo), which
\* is a MetaInfo also when metaInfo is None.
SetNewDataMetaInfo(w, self, metaInfo) ==
    [w EXCEPT !.newDataMetaInfo[self] = IF metaInfo = NoMetaInfo THEN NoTime ELSE metaInfo]

\* Namespace._getNewDataMetaInfo
GetNewDataMetaInfo(w, namespace) ==
    IF w.newDataMetaInfo[namespace] # NoMetaInfo THEN w.newDataMetaInfo[namespace]
    ELSE IF namespace = Root THEN NoMetaInfo
    ELSE GetNewDataMetaInfo(w, Parent(namespace))

\* Namespace.setHandler with a Handler of the base class that is attached to no
\* node yet, or with None: a node that has a handler refuses another one.
SetOwnHandler(w, self, h) ==
    IF h = NoOwnHandler THEN [w EXCEPT !.ownHandler[self] = NoOwnHandler]
    ELSE IF w.ownHandler[self] # NoOwnHandler THEN Raise(w)
    ELSE [w EXCEPT !.ownHandler[self] = h]

\* Namespace._getHandler
RECURSIVE GetHandler(_, _)
GetHandler(w, namespace) ==
    IF w.ownHandler[namespace] # NoOwnHandler THEN w.ownHandler[namespace]
    ELSE IF namespace = Root THEN NoOwnHandler
    ELSE GetHandler(w, Parent(namespace))

(***************************** SegmentStream ********************************)
\* SegmentStream.__init__.  The store maps a segment number to "None" when the
\* segment is requested and to "Data" when its packet is there; `expressed` are
\* the interests the face has not answered: a segment number, FirstInterest for
\* the name of the stream and LastInterest for the one with the child selector;
\* `segments` is what onSegment was called with.
FirstInterest == -1
LastInterest == -2
NewSegmentStream ==
    [interestPipelineSize |-> 8, store |-> <<>>, maxRetrievedSegmentNumber |-> -1,
     finalSegmentNumber |-> NoSegment, didRequestFinalSegment |-> FALSE,
     expressed |-> {}, segments |-> <<>>]

\* SegmentStream.setInterestPipelineSize: the stream afterwards.  The method
\* ends in `return self._interestPipelineSize`.
SetInterestPipelineSize(st, interestPipelineSize) == st

\* _SegmentStore.storeData
StoreData(st, segmentNumber) ==
    IF segmentNumber > st.maxRetrievedSegmentNumber
    THEN [st EXCEPT !.store = (segmentNumber :> "Data") @@ @]
    ELSE st

Least(S) == CHOOSE x \in S : \A y \in S : x <= y

\* The loop of _onData over _SegmentStore.maybeRetrieveNextEntry, with
\* _fireOnSegment: the stream afterwards and whether it has finished.
RECURSIVE RetrieveEntries(_)
RetrieveEntries(st) ==
    IF DOMAIN st.store = {} THEN [st |-> st, finished |-> FALSE]
    ELSE LET minSegmentNumber == Least(DOMAIN st.store)
         IN IF st.store[minSegmentNumber] # "None" /\
               minSegmentNumber = st.maxRetrievedSegmentNumber + 1
            THEN LET st1 == [st EXCEPT
                               !.store = [k \in DOMAIN @ \ {minSegmentNumber} |-> @[k]],
                               !.maxRetrievedSegmentNumber = @ + 1,
                               !.segments = Append(@, minSegmentNumber)]
                 IN IF st1.finalSegmentNumber # NoSegment /\
                       minSegmentNumber = st1.finalSegmentNumber
                    THEN [st |-> [st1 EXCEPT !.segments = Append(@, NoSegment)],
                          finished |-> TRUE]
                    ELSE RetrieveEntries(st1)
            ELSE [st |-> st, finished |-> FALSE]

\* The loops of _SegmentStore.requestSegmentNumbers that fill the gap before
\* the key keys[i] of the store and go on to the next key.
RECURSIVE FillGaps(_, _, _, _, _, _)
FillGaps(keys, i, nextSegmentNumber, nRequestedSegments, totalRequestedSegments, toRequest) ==
    IF i > Len(keys)
    THEN [next |-> nextSegmentNumber, n |-> nRequestedSegments, toRequest |-> toRequest]
    ELSE IF nextSegmentNumber < keys[i]
    THEN IF nRequestedSegments + 1 >= totalRequestedSegments
         THEN [next |-> nextSegmentNumber + 1, n |-> nRequestedSegments + 1,
               toRequest |-> Append(toRequest, nextSegmentNumber)]
         ELSE FillGaps(keys, i, nextSegmentNumber + 1, nRequestedSegments + 1,
                       totalRequestedSegments, Append(toRequest, nextSegmentNumber))
    ELSE IF nRequestedSegments >= totalRequestedSegments
    THEN [next |-> nextSegmentNumber, n |-> nRequestedSegments, toRequest |-> toRequest]
    ELSE FillGaps(keys, i + 1, keys[i] + 1, nRequestedSegments,
                  totalRequestedSegments, toRequest)

\* _SegmentStore.requestSegmentNumbers: the segment numbers to request.
RequestSegmentNumbers(st, totalRequestedSegments) ==
    LET nRequested == Cardinality({k \in DOMAIN st.store : st.store[k] = "None"})
    IN IF nRequested >= 1 /\ nRequested >= totalRequestedSegments THEN <<>>
       ELSE LET r == FillGaps(SortedSeq(DOMAIN st.store), 1,
                              st.maxRetrievedSegmentNumber + 1, nRequested,
                              totalRequestedSegments, <<>>)
            IN r.toRequest \o
               [j \in 1..(IF r.n < totalRequestedSegments
                          THEN totalRequestedSegments - r.n ELSE 0) |-> r.next + j - 1]

\* The end of _onData: the last segment is asked for once while the final
\* segment number is unknown, and new segments are requested.
RequestMore(st) ==
    LET st1 == IF st.finalSegmentNumber = NoSegment /\ ~st.didRequestFinalSegment
               THEN [st EXCEPT !.didRequestFinalSegment = TRUE,
                               !.expressed = @ \cup {LastInterest}]
               ELSE st
        toRequest == RequestSegmentNumbers(st1, st1.interestPipelineSize)
    IN [st1 EXCEPT
           !.store = [k \in Range(toRequest) |-> "None"] @@ @,
           !.expressed = @ \cup {k \in Range(toRequest) :
                                    st1.finalSegmentNumber = NoSegment \/
                                    k <= st1.finalSegmentNumber}]

\* SegmentStream._onData for the Data packet of a segment of the stream.
SegmentStreamOnData(st, segmentNumber, finalBlockId) ==
    LET st1 == StoreData(st, segmentNumber)
        st2 == IF finalBlockId # NoSegment
               THEN [st1 EXCEPT !.finalSegmentNumber = finalBlockId] ELSE st1
        r == RetrieveEntries(st2)
    IN IF r.finished THEN r.st ELSE RequestMore(r.st)

(********************************* Blob *************************************)
\* Blob(bytes): the byte string gets an entry in the table unless it has one, so
\* that two Blobs are the same number exactly when their bytes are the same.
MakeBlob(w, bytes) ==
    IF \E k \in 1..Len(w.blobs) : w.blobs[k] = bytes THEN w
    ELSE [w EXCEPT !.blobs = Append(@, bytes)]

BlobOf(w, bytes) == CHOOSE k \in 1..Len(w.blobs) : w.blobs[k] = bytes

\* Blob.toBytes and Blob.size
ToBytes(w, blob) == w.blobs[blob]
Size(w, blob) == Len(w.blobs[blob])

Zeros(n) == [i \in 1..n |-> 0]

(************************ SegmentStreamHandler ******************************)
SHA256_DIGEST_SIZE == 32
DefaultMaxSegmentPayloadLength == 8192

\* data.getFullName()[-1].getValue(): the SHA-256 digest of the encoding of the
\* packet, taken as free of collisions: 32 bytes that spell out the name, the
\* content, the final block ID, the freshness period and the kind of signature.
ImplicitDigest(w, dat) ==
    [i \in 1..SHA256_DIGEST_SIZE |->
        CASE i = 1 -> Len(dat.name)
          [] i = 2 -> IF Len(dat.name) >= 1 THEN dat.name[1] ELSE 0
          [] i = 3 -> IF Len(dat.name) >= 2 THEN dat.name[2] ELSE 0
          [] i = 4 -> dat.content
          [] i = 5 -> dat.finalBlockId
          [] i = 6 -> dat.freshnessPeriod
          [] i = 7 -> IF dat.signature = "DigestSha256" THEN 0 ELSE 1
          [] OTHER -> 0]

\* SegmentStreamHandler.setMaxSegmentPayloadLength
SetMaxSegmentPayloadLength(w, maxSegmentPayloadLength) ==
    IF maxSegmentPayloadLength < 1 THEN Raise(w)
    ELSE [w EXCEPT !.handler.maxSegmentPayloadLength = maxSegmentPayloadLength]

\* The number of segments where the number of the final segment belongs.
FinalSegmentCount(w, obj, segment, offset, finalSegment) ==
    (Size(w, obj) + w.handler.maxSegmentPayloadLength - 1) \div
        w.handler.maxSegmentPayloadLength

\* The first loop of setObject, which finds the number of the final segment.
RECURSIVE FinalSegmentFrom(_, _, _, _, _)
FinalSegmentFrom(w, obj, segment, offset, finalSegment) ==
    IF offset < Size(w, obj)
    THEN FinalSegmentFrom(w, obj, segment + 1, offset + w.handler.maxSegmentPayloadLength,
                          segment)
    ELSE finalSegment

\* manifestContent[digestOffset:digestOffset + SHA256_DIGEST_SIZE] = digest
WithDigestAt(manifestContent, digestOffset, digest) ==
    [i \in 1..Len(manifestContent) |->
        IF i > digestOffset /\ i <= digestOffset + SHA256_DIGEST_SIZE
        THEN digest[i - digestOffset]
        ELSE manifestContent[i]]

\* The Data packet setObject makes for a segment, which starts with a copy of
\* the new-data MetaInfo.
SegmentData(w, namespace, obj, segment, offset, payloadLength, finalSegment, useSignatureManifest) ==
    Data(Append(namespace, segment),
         BlobOf(w, SubSeq(ToBytes(w, obj), offset + 1, offset + payloadLength)),
         IF GetNewDataMetaInfo(w, namespace) # NoMetaInfo
         THEN GetNewDataMetaInfo(w, namespace) ELSE NoTime,
         finalSegment,
         IF useSignatureManifest THEN "DigestSha256" ELSE "Sha256WithRsa")

\* The second loop of setObject: the world afterwards, with the manifest content.
RECURSIVE AttachSegmentsFrom(_, _, _, _, _, _, _, _)
AttachSegmentsFrom(w, namespace, obj, segment, offset, finalSegment, useSignatureManifest, manifestContent) ==
    IF offset >= Size(w, obj) THEN [w |-> w, manifestContent |-> manifestContent]
    ELSE LET maxLength == w.handler.maxSegmentPayloadLength
             payloadLength == IF offset + maxLength > Size(w, obj)
                              THEN Size(w, obj) - offset ELSE maxLength
         IN Only({Only({AttachSegmentsFrom(
                            SetData(w1, Append(namespace, segment), dat),
                            namespace, obj, segment + 1, offset + maxLength,
                            finalSegment, useSignatureManifest,
                            IF useSignatureManifest
                            THEN WithDigestAt(manifestContent,
                                              segment * SHA256_DIGEST_SIZE,
                                              ImplicitDigest(w1, dat))
                            ELSE manifestContent) :
                        dat \in {SegmentData(w1, namespace, obj, segment, offset,
                                             payloadLength, finalSegment,
                                             useSignatureManifest)}}) :
                  w1 \in {MakeBlob(GetChildComponent(w, namespace, segment),
                                   SubSeq(ToBytes(w, obj), offset + 1,
                                          offset + payloadLength))}})

\* The two loops of setObject.
AttachSegments(w, namespace, obj, useSignatureManifest) ==
    Only({AttachSegmentsFrom(w, namespace, obj, 0, 0, finalSegment, useSignatureManifest,
                             IF useSignatureManifest
                             THEN Zeros((finalSegment + 1) * SHA256_DIGEST_SIZE)
                             ELSE <<>>) :
          finalSegment \in {FinalSegmentFrom(w, obj, 0, 0, 0)}})

\* SegmentStreamHandler.setObject, with a KeyChain whose sign returns.
HandlerSetObject(w, namespace, obj, useSignatureManifest) ==
    IF GetKeyChain(w, namespace) = NoKeyChain THEN Raise(w)
    ELSE Only({Only({SetObject(w2, namespace, obj) :
                     w2 \in {IF useSignatureManifest
                             THEN Only({SerializeObject(
                                            GetChildComponent(w1, namespace,
                                                              NAME_COMPONENT_MANIFEST),
                                            Append(namespace, NAME_COMPONENT_MANIFEST),
                                            BlobOf(w1, r.manifestContent), TRUE) :
                                        w1 \in {MakeBlob(r.w, r.manifestContent)}})
                             ELSE r.w}}) :
               r \in {AttachSegments(w, namespace, obj, useSignatureManifest)}})

\* The loop of verifyWithManifest over the segments the manifest lists.
RECURSIVE VerifySegmentsFrom(_, _, _, _, _)
VerifySegmentsFrom(w, namespace, manifestContent, segment, nSegments) ==
    IF segment >= nSegments THEN [w |-> w, result |-> "True"]
    ELSE Only({IF w1.data[Append(namespace, segment)] = NoData
               THEN [w |-> Raise(w1), result |-> "AttributeError"]
               ELSE IF \E i \in 1..SHA256_DIGEST_SIZE :
                          ImplicitDigest(w1, w1.data[Append(namespace, segment)])[i] #
                             manifestContent[segment * SHA256_DIGEST_SIZE + i]
               THEN [w |-> w1, result |-> "False"]
               ELSE VerifySegmentsFrom(w1, namespace, manifestContent, segment + 1,
                                       nSegments) :
               w1 \in {GetChildComponent(w, namespace, segment)}})

\* SegmentStreamHandler.verifyWithManifest: the world afterwards and what the
\* call returns or raises.  len(manifestContent) / SHA256_DIGEST_SIZE is a whole
\* number under Python 2; under Python 3 (trueDivision) it is a float, which
\* passes the test of the length and which range() refuses.
VerifyWithManifest(w, namespace, trueDivision) ==
    Only({IF w1.object[Append(namespace, NAME_COMPONENT_MANIFEST)] = NoObject
          THEN [w |-> Raise(w1), result |-> "AttributeError"]
          ELSE LET manifestContent ==
                       ToBytes(w1, w1.object[Append(namespace, NAME_COMPONENT_MANIFEST)])
                   nSegments == Len(manifestContent) \div SHA256_DIGEST_SIZE
               IN IF trueDivision THEN [w |-> Raise(w1), result |-> "TypeError"]
                  ELSE IF Len(manifestContent) # nSegments * SHA256_DIGEST_SIZE
                  THEN [w |-> w1, result |-> "False"]
                  ELSE VerifySegmentsFrom(w1, namespace, manifestContent, 0, nSegments) :
          w1 \in {GetChildComponent(w, namespace, NAME_COMPONENT_MANIFEST)}})

\* The node of segment number `segment` under the handler's namespace.
SegmentName(w, segment) == Append(w.handler.namespace, segment)

\* SegmentStreamHandler.__init__
NewHandler ==
    [exists |-> TRUE, namespace |-> NoNamespace, maxReportedSegmentNumber |-> -1,
     finalSegmentNumber |-> NoSegment, interestPipelineSize |-> 8,
     initialInterestCount |-> 1, onSegmentCallbacks |-> <<>>,
     onObjectNeededId |-> 0, onStateChangedId |-> 0,
     maxSegmentPayloadLength |-> DefaultMaxSegmentPayloadLength]

\* The application has constructed no SegmentStreamHandler.
NoHandler == [NewHandler EXCEPT !.exists = FALSE]

\* SegmentStreamHandler.addOnSegment
AddOnSegment(w, fn) ==
    LET w1 == GetNextCallbackId(w)
        callbackId == w1.lastCallbackId
    IN [w1 EXCEPT !.handler.onSegmentCallbacks = Append(@, callbackId),
                  !.callback = @ @@ (callbackId :> fn),
                  !.reported = @ @@ (callbackId :> <<>>)]

\* SegmentStreamHandler.removeCallback
HandlerRemoveCallback(w, callbackId) ==
    [w EXCEPT !.handler.onSegmentCallbacks = Without(@, callbackId)]

\* SegmentStreamHandler._onNamespaceSet
OnNamespaceSet(w) ==
    LET w1 == AddOnObjectNeeded(w, w.handler.namespace, HandlerMethod)
        w2 == [w1 EXCEPT !.handler.onObjectNeededId = w1.lastCallbackId]
        w3 == AddOnStateChanged(w2, w2.handler.namespace, HandlerMethod)
    IN [w3 EXCEPT !.handler.onStateChangedId = w3.lastCallbackId]

\* Namespace.setHandler, which calls Handler.setNamespace, on a node without a handler.
SetHandler(w, self) ==
    OnNamespaceSet([w EXCEPT !.handler.namespace = self])

\* Handler.setNamespace of a SegmentStreamHandler for any value passed as the
\* namespace.  _onNamespaceSet calls self.namespace.addOnObjectNeeded: an
\* AttributeError when the value is not a Namespace.
HandlerSetNamespace(w, namespace) ==
    IF w.handler.namespace # NoNamespace /\ w.handler.namespace # namespace
    THEN Raise(w)
    ELSE IF namespace \notin w.nodes
    THEN Raise([w EXCEPT !.handler.namespace = namespace])
    ELSE OnNamespaceSet([w EXCEPT !.handler.namespace = namespace])

\* SegmentStreamHandler.__init__(namespace, onSegment); NoNamespace and
\* NoFunction stand for None.
NewSegmentStreamHandler(w, namespace, onSegment) ==
    Only({IF namespace # NoNamespace THEN HandlerSetNamespace(w1, namespace) ELSE w1 :
          w1 \in {IF onSegment # NoFunction
                  THEN AddOnSegment([w EXCEPT !.handler = NewHandler], onSegment)
                  ELSE [w EXCEPT !.handler = NewHandler]}})

\* SegmentedObjectHandler.__init__: super().__init__(self._onSegment) gives the
\* method to the first parameter of SegmentStreamHandler.__init__, which is the
\* namespace.  When that raises, the statements that follow are not reached and
\* there is no handler.
NewSegmentedObjectHandler(w) ==
    Only({IF w1.exception THEN Raise(w) ELSE w1 :
          w1 \in {NewSegmentStreamHandler(w, OnSegmentMethod, NoFunction)}})

\* GeneralizedObjectHandler.__init__, which starts by constructing a
\* SegmentedObjectHandler.
NewGeneralizedObjectHandler(w) == NewSegmentedObjectHandler(w)

\* The call self._onSegmentCallbacks[id](segmentNamespace) of an application's
\* onSegment callback.
CallOnSegment(w, id) ==
    RaiseIf(w.callback[id].raises,
            IF w.callback[id].removes # NoCallback
            THEN HandlerRemoveCallback(w, w.callback[id].removes)
            ELSE w)

\* SegmentStreamHandler._fireOnSegment: segment is the segment number of the
\* node passed to the callbacks, NoSegment for onSegment(None).
FireOnSegmentFrom(w, segment, keys, i) ==
    IF i > Len(keys) THEN w
    ELSE IF keys[i] \notin Range(w.handler.onSegmentCallbacks)
    THEN FireOnSegmentFrom(w, segment, keys, i + 1)
    ELSE FireOnSegmentFrom(
             Caught(CallOnSegment(
                        [w EXCEPT !.log = Append(@, Event("segment", keys[i],
                                                          w.handler.namespace,
                                                          w.handler.namespace, segment, 0)),
                                  !.reported[keys[i]] = Append(@, segment)],
                        keys[i])),
             segment, keys, i + 1)

\* _fireOnSegment without the try: the exception of a callback ends the loop.
FireOnSegmentUncaught(w, segment) ==
    LET keys == w.handler.onSegmentCallbacks
        first == IF keys = <<>> THEN w ELSE FireOnSegmentFrom(w, segment, <<keys[1]>>, 1)
    IN IF keys # <<>> /\ w.callback[keys[1]].raises
       THEN first
       ELSE FireOnSegmentFrom(first, segment, keys, 2)

FireOnSegment(w, segment) ==
    FireOnSegmentFrom(w, segment, w.handler.onSegmentCallbacks, 1)

\* The first loop without the count: every call starts from no requested segment.
CountNothing(w, keys, i, nRequestedSegments, maxRequestedSegments) ==
    nRequestedSegments

\* The first loop of SegmentStreamHandler._requestNewSegments: how many segment
\* children are requested and not received, counted up to maxRequestedSegments.
CountRequested(w, keys, i, nRequestedSegments, maxRequestedSegments) ==
    IF i > Len(keys) THEN nRequestedSegments
    ELSE IF ~IsSegment(keys[i])
    THEN CountRequested(w, keys, i + 1, nRequestedSegments, maxRequestedSegments)
    ELSE IF w.data[SegmentName(w, keys[i])] = NoData /\
            w.state[SegmentName(w, keys[i])] >= INTEREST_EXPRESSED
    THEN IF nRequestedSegments + 1 >= maxRequestedSegments
         THEN nRequestedSegments + 1
         ELSE CountRequested(w, keys, i + 1, nRequestedSegments + 1,
                             maxRequestedSegments)
    ELSE CountRequested(w, keys, i + 1, nRequestedSegments, maxRequestedSegments)

\* The log entry of segment.objectNeeded() in _requestNewSegments: the segment
\* number, the state of the segment child at the call, whether it holds Data (id),
\* and the final segment number the handler knows at the call.
SegmentRequest(w, segmentNumber) ==
    Event("objectNeeded", IF w.data[SegmentName(w, segmentNumber)] # NoData THEN 1 ELSE 0,
          w.handler.namespace, SegmentName(w, segmentNumber),
          w.state[SegmentName(w, segmentNumber)], w.handler.finalSegmentNumber)

\* The second loop without the check of the final segment number: it goes on
\* to request segments after the final one.
RequestPastFinalSegment(w, segmentNumber, nRequestedSegments, maxRequestedSegments) ==
    IF nRequestedSegments >= maxRequestedSegments THEN w
    ELSE Only({IF w1.data[SegmentName(w, segmentNumber + 1)] # NoData \/
                  w1.state[SegmentName(w, segmentNumber + 1)] >= INTEREST_EXPRESSED
               THEN RequestFrom(w1, segmentNumber + 1, nRequestedSegments,
                                maxRequestedSegments)
               ELSE RequestFrom(ObjectNeeded(Logged(w1, SegmentRequest(w1, segmentNumber + 1)),
                                             SegmentName(w, segmentNumber + 1), FALSE),
                                segmentNumber + 1, nRequestedSegments + 1,
                                maxRequestedSegments) :
               w1 \in {GetChildComponent(w, w.handler.namespace, segmentNumber + 1)}})

\* The second loop of SegmentStreamHandler._requestNewSegments; w1 is the world
\* after segment = self.namespace[segmentNumber].
RequestFrom(w, segmentNumber, nRequestedSegments, maxRequestedSegments) ==
    IF nRequestedSegments >= maxRequestedSegments THEN w
    ELSE IF w.handler.finalSegmentNumber # NoSegment /\
            segmentNumber + 1 > w.handler.finalSegmentNumber
    THEN w
    ELSE Only({IF w1.data[SegmentName(w, segmentNumber + 1)] # NoData \/
                  w1.state[SegmentName(w, segmentNumber + 1)] >= INTEREST_EXPRESSED
               THEN RequestFrom(w1, segmentNumber + 1, nRequestedSegments,
                                maxRequestedSegments)
               ELSE RequestFrom(ObjectNeeded(Logged(w1, SegmentRequest(w1, segmentNumber + 1)),
                                             SegmentName(w, segmentNumber + 1), FALSE),
                                segmentNumber + 1, nRequestedSegments + 1,
                                maxRequestedSegments) :
               w1 \in {GetChildComponent(w, w.handler.namespace, segmentNumber + 1)}})

\* SegmentStreamHandler._requestNewSegments
RequestNewSegments(w, maxRequestedSegments) ==
    LET max == IF maxRequestedSegments < 1 THEN 1 ELSE maxRequestedSegments
    IN RequestFrom(w, w.handler.maxReportedSegmentNumber,
                   CountRequested(w, GetChildComponents(w, w.handler.namespace), 1, 0, max),
                   max)

\* _onStateChanged after _fireOnSegment(nextSegment): a segment signed with
\* DigestSha256 makes the handler ask for the _manifest child, once.
RequestManifest(w, nextSegmentNumber) ==
    IF w.data[SegmentName(w, nextSegmentNumber)].signature = "DigestSha256"
    THEN Only({IF w1.state[SegmentName(w, NAME_COMPONENT_MANIFEST)] < INTEREST_EXPRESSED
               THEN ObjectNeeded(w1, SegmentName(w, NAME_COMPONENT_MANIFEST), FALSE)
               ELSE w1 :
               w1 \in {GetChildComponent(w, w.handler.namespace,
                                         NAME_COMPONENT_MANIFEST)}})
    ELSE w

\* _onStateChanged at the end of a pass of the loop: after the final segment,
\* onSegment(None) and the release of the callbacks; otherwise the next pass.
FinishOrReportNext(w, nextSegmentNumber) ==
    IF w.handler.finalSegmentNumber # NoSegment /\
       nextSegmentNumber = w.handler.finalSegmentNumber
    THEN RemoveCallback(
             RemoveCallback([FireOnSegment(w, NoSegment) EXCEPT
                                !.handler.onSegmentCallbacks = <<>>],
                            w.handler.namespace, w.handler.onObjectNeededId),
             w.handler.namespace, w.handler.onStateChangedId)
    ELSE ReportSegments(w)

\* _onStateChanged after _fireOnSegment(nextSegment).  nextSegment.getData() is
\* None for a segment whose object was set without a packet: getSignature() then
\* raises, which ends the callback.
AfterOnSegment(w, nextSegmentNumber) ==
    IF w.data[SegmentName(w, nextSegmentNumber)] = NoData THEN Raise(w)
    ELSE FinishOrReportNext(RequestManifest(w, nextSegmentNumber), nextSegmentNumber)

\* ReportSegments with the loop left out: it reports the next segment when that
\* one is ready and does not go on to the segments that arrived before it.
ReportOneSegment(w) ==
    LET nextSegmentNumber == w.handler.maxReportedSegmentNumber + 1
        nextSegment == SegmentName(w, nextSegmentNumber)
        w1 == GetChildComponent(w, w.handler.namespace, nextSegmentNumber)
    IN IF w1.object[nextSegment] = NoObject
       THEN RequestNewSegments(w1, w1.handler.interestPipelineSize)
       ELSE LET w2 == [w1 EXCEPT !.handler.maxReportedSegmentNumber = nextSegmentNumber]
                w3 == FireOnSegment(w2, nextSegmentNumber)
            IN IF w3.handler.finalSegmentNumber # NoSegment /\
                  nextSegmentNumber = w3.handler.finalSegmentNumber
               THEN LET w5 == FireOnSegment(w3, NoSegment)
                        w6 == [w5 EXCEPT !.handler.onSegmentCallbacks = <<>>]
                    IN RemoveCallback(w6, w6.handler.namespace,
                                      w6.handler.onStateChangedId)
               ELSE RequestNewSegments(w3, w3.handler.interestPipelineSize)

\* The "while True" loop of SegmentStreamHandler._onStateChanged and the
\* _requestNewSegments that follows it; w1 is the world after
\* nextSegment = self.namespace[nextSegmentNumber].
ReportSegments(w) ==
    Only({IF w1.object[SegmentName(w, w.handler.maxReportedSegmentNumber + 1)] = NoObject
          THEN RequestNewSegments(w1, w1.handler.interestPipelineSize)
          ELSE AfterOnSegment(
                   FireOnSegment([w1 EXCEPT !.handler.maxReportedSegmentNumber =
                                                w.handler.maxReportedSegmentNumber + 1],
                                 w.handler.maxReportedSegmentNumber + 1),
                   w.handler.maxReportedSegmentNumber + 1) :
          w1 \in {GetChildComponent(w, w.handler.namespace,
                                    w.handler.maxReportedSegmentNumber + 1)}})

\* SegmentStreamHandler._onStateChanged.  changedNamespace.data is None for a node
\* whose object was set without a packet: .metaInfo then raises, which ends the callback.
HandlerOnStateChanged(w, namespace, changedNamespace, st, callbackId) ==
    IF ~(/\ st = OBJECT_READY
         /\ Len(changedNamespace) = Len(w.handler.namespace) + 1
         /\ IsSegment(changedNamespace[Len(changedNamespace)]))
    THEN w
    ELSE IF w.data[changedNamespace] = NoData THEN Raise(w)
    ELSE ReportSegments(
             IF w.data[changedNamespace].finalBlockId # NoSegment /\
                IsSegment(w.data[changedNamespace].finalBlockId)
             THEN [w EXCEPT !.handler.finalSegmentNumber =
                                w.data[changedNamespace].finalBlockId]
             ELSE w)

\* SegmentStreamHandler._onObjectNeeded: the world afterwards and what it returns.
HandlerOnObjectNeeded(w, namespace, neededNamespace, id) ==
    IF namespace # neededNamespace THEN [w |-> w, result |-> FALSE]
    ELSE [w |-> RequestNewSegments(w, w.handler.initialInterestCount), result |-> TRUE]

(***************************************************************************)
(* The state after construction: Namespace.__init__ for the root and for   *)
(* the nodes of ns, reached by getChild before anything listens.           *)
(***************************************************************************)
InitTreeWithBlobs(ns, h, b) ==
    /\ nodes = ns
    /\ state = [n \in ns |-> NAME_EXISTS]
    /\ validateState = [n \in ns |-> WAITING_FOR_DATA]
    /\ data = [n \in ns |-> NoData]
    /\ object = [n \in ns |-> NoObject]
    /\ freshnessExpiry = [n \in ns |-> NoTime]
    /\ signingError = [n \in ns |-> FALSE]
    /\ decryptionError = [n \in ns |-> FALSE]
    /\ networkNack = [n \in ns |-> NoNack]
    /\ decryptor = [n \in ns |-> NoDecryptor]
    /\ maxInterestLifetime = [n \in ns |-> NoTime]
    /\ ownFace = [n \in ns |-> NoFace]
    /\ keyChain = [n \in ns |-> NoKeyChain]
    /\ newDataMetaInfo = [n \in ns |-> NoMetaInfo]
    /\ ownHandler = [n \in ns |-> NoOwnHandler]
    /\ blobs = b
    /\ threads = NoThreads
    /\ stream = NewSegmentStream
    /\ decrypting = {}
    /\ onStateChangedCallbacks = [n \in ns |-> <<>>]
    /\ onValidateStateChangedCallbacks = [n \in ns |-> <<>>]
    /\ onObjectNeededCallbacks = [n \in ns |-> <<>>]
    /\ callback = <<>>
    /\ lastCallbackId = 0
    /\ handler = h
    /\ reported = <<>>
    /\ consumer = [started |-> FALSE, theReceivedObject |-> <<>>]
    /\ producer = [started |-> FALSE]
    /\ removed = {}
    /\ log = <<>>
    /\ fanout = 0
    /\ now = 0
    /\ exception = FALSE
    /\ lastOp = [op |-> "none"]

InitTree(ns, h) == InitTreeWithBlobs(ns, h, <<>>)

(***************************************************************************)
(* SpecStream: a consumer.  A SegmentStreamHandler is attached to the node  *)
(* StreamNode; the producer has segments 0..MaxSegment, each declaring      *)
(* MaxSegment as the final block.  The application may also request any     *)
(* segment itself, so that the segments arrive in every order.              *)
(***************************************************************************)
StreamNode == <<0>>
Segments == 0..MaxSegment
PipelineSizes == {1, 2}            \* the pipeline sizes tried besides the default
InitialInterestCounts == {2}       \* the initial interest counts tried besides the default

Attached == handler.namespace # NoNamespace

InitStream ==
    /\ InitTree({Root, StreamNode}, NewHandler)
    /\ table = [exists |-> FALSE, entries |-> <<>>, received |-> 0]
    /\ \E signature \in {"Sha256WithRsa", "DigestSha256"} :
          face = [exists |-> TRUE, interests |-> EmptyBag, signature |-> signature]

\* root[name].objectNeeded()
Request(w, name) == ObjectNeeded(GetChild(w, Root, name), name, FALSE)

\* The face takes the interest from its pending interests and calls the onData
\* given to expressInterest: _onData of the node that expressed the interest.
Respond(w, interest, dat) ==
    OnData([w EXCEPT !.face.interests = @ (-) SetToBag({interest})],
           interest.name, interest, dat)

\* The Data packet of the producer for the name of the interest: segment k of the
\* stream has the content k + 1 and declares MaxSegment as the final block.
ResponseTo(interest) ==
    IF handler.exists /\ interest.name # Root
    THEN Data(interest.name, interest.name[Len(interest.name)] + 1, NoTime, MaxSegment,
              face.signature)
    ELSE Data(interest.name, 1, NoTime, NoSegment, face.signature)

\* handler.addOnSegment(onSegment), before the handler is attached.
StreamAddOnSegment ==
    /\ handler.exists
    /\ ~Attached
    /\ Len(handler.onSegmentCallbacks) < MaxOnSegment
    /\ \E raises \in BOOLEAN :
          /\ Commit(AddOnSegment(World, AppFunction(NoCallback, raises, FALSE)))

\* handler.setInterestPipelineSize(n), before the handler is attached.
StreamSetInterestPipelineSize ==
    /\ handler.exists
    /\ ~Attached
    /\ handler.interestPipelineSize = NewHandler.interestPipelineSize
    /\ \E n \in PipelineSizes :
          /\ Commit([World EXCEPT !.handler.interestPipelineSize = n])

\* handler.setInitialInterestCount(n), before the handler is attached.
StreamSetInitialInterestCount ==
    /\ handler.exists
    /\ ~Attached
    /\ handler.initialInterestCount = NewHandler.initialInterestCount
    /\ \E n \in InitialInterestCounts :
          /\ Commit([World EXCEPT !.handler.initialInterestCount = n])

\* StreamNode.setHandler(handler)
StreamSetHandler ==
    /\ handler.exists
    /\ ~Attached
    /\ Commit(SetHandler(World, StreamNode))

\* The application calls objectNeeded() on the stream node, or on a segment child
\* that it names first: StreamNode[segment].objectNeeded().
StreamObjectNeeded ==
    /\ Attached
    /\ BagCardinality(face.interests) < MaxInterests
    /\ \E n \in {StreamNode} \cup {Append(StreamNode, k) : k \in Segments} :
          Commit(Request(World, n))

\* The face delivers the Data that answers an expressed interest for a segment
\* the producer has: Face removes the pending interest and calls _onData of the
\* node that expressed it.
StreamOnData ==
    \E interest \in BagToSet(face.interests) :
        /\ handler.exists
        /\ Len(interest.name) = Len(StreamNode) + 1
        /\ interest.name[Len(interest.name)] \in Segments
        /\ Commit(Respond(World, interest, ResponseTo(interest)))

NextStream ==
    \/ StreamAddOnSegment
    \/ StreamSetInterestPipelineSize
    \/ StreamSetInitialInterestCount
    \/ StreamSetHandler
    \/ StreamObjectNeeded
    \/ StreamOnData

SpecStream == InitStream /\ [][NextStream]_vars


(***************************************************************************)
(* Spec: a consumer.  An application and a face work on the tree of the    *)
(* root and one child.  The application has registered an onStateChanged   *)
(* and an onValidateStateChanged callback on the root, which see every      *)
(* change in the tree; it names the child, attaches and serializes Data and *)
(* asks for objects; the face delivers Data for the interests expressed.    *)
(***************************************************************************)
AppNames == {<<0>>}                 \* the names the application and the network use
Contents == {1, 2}                  \* the contents of the Blobs
Lifetimes == {NoTime, 1}            \* the lifetimes of the incoming interests
Plain == AppFunction(NoCallback, FALSE, FALSE)     \* a callback that just returns

\* The root after Namespace(name), setFace and the registration of the two observers.
InitObserved(registered) ==
    /\ InitTree({Root}, NoHandler)
    /\ table = [exists |-> registered, entries |-> <<>>, received |-> 0]
    /\ face = [exists |-> TRUE, interests |-> EmptyBag, signature |-> "Sha256WithRsa"]

ObserveRoot(w) ==
    AddOnValidateStateChanged(AddOnStateChanged(w, Root, Plain), Root, Plain)

\* root.addOnStateChanged(f); root.addOnValidateStateChanged(g)
AppObserve ==
    /\ lastCallbackId = 0
    /\ CommitOp(ObserveRoot(World), [op |-> "observe", node |-> Root, returns |-> TRUE])

\* root.getChild(name)
AppGetChild ==
    /\ lastCallbackId > 0
    /\ \E n \in AppNames :
          CommitOp(GetChild(World, Root, n),
                   [op |-> "getChild", node |-> n, returns |-> (n \notin nodes)])

\* node.setData(data) with a packet of the node's name; it returns whether it
\* attached the packet.
AppSetData(contents) ==
    /\ lastCallbackId > 0
    /\ \E n \in nodes, content \in contents :
          LET dat == Data(n, content, NoTime, NoSegment, "Sha256WithRsa")
          IN CommitOp(SetData(World, n, dat),
                      [op |-> "setData", node |-> n,
                       returns |-> SetDataReturns(World, n, dat)])

\* node.serializeObject(obj): the key chain signs the packet or raises.
AppSerializeObject(contents) ==
    /\ lastCallbackId > 0
    /\ \E n \in nodes, obj \in contents, signOk \in BOOLEAN :
          CommitOp(SerializeObject(World, n, obj, signOk),
                   [op |-> "serializeObject", node |-> n, returns |-> signOk])

\* node.objectNeeded()
AppObjectNeeded ==
    /\ lastCallbackId > 0
    /\ BagCardinality(face.interests) < MaxInterests
    /\ \E n \in nodes :
          CommitOp(ObjectNeeded(World, n, FALSE),
                   [op |-> "objectNeeded", node |-> n, returns |-> TRUE])

\* The face delivers Data for an expressed interest: a packet of the interest's
\* name or of a longer name.  "at" is the node that expressed the interest and
\* "returns" is whether the packet was attached.
FaceOnData(contents) ==
    \E interest \in BagToSet(face.interests), n \in AppNames \cup {Root}, content \in contents :
        /\ IsPrefixOf(interest.name, n)
        /\ LET w == [World EXCEPT !.face.interests = @ (-) SetToBag({interest})]
           IN CommitOp(OnData(w, interest.name, interest,
                              Data(n, content, NoTime, NoSegment, "Sha256WithRsa")),
                       [op |-> "onData", node |-> n, at |-> interest.name,
                        returns |-> (n \notin nodes \/ data[n] = NoData)])

Init == InitObserved(FALSE)

Next ==
    \/ AppObserve
    \/ AppGetChild
    \/ AppSetData(Contents)
    \/ AppSerializeObject(Contents)
    \/ AppObjectNeeded
    \/ FaceOnData(Contents)

Spec == Init /\ [][Next]_vars

(***************************************************************************)
(* SpecPending: a producer.  The root has registered its prefix, so it has  *)
(* a pending incoming interest table; incoming interests arrive and wait,  *)
(* time passes, and Data is attached by setData, by serializeObject and by  *)
(* the answer to an interest that the node expressed itself.                *)
(***************************************************************************)
\* The face delivers an incoming interest under the registered prefix.
FaceOnInterest ==
    /\ lastCallbackId > 0
    /\ table.received < MaxPending
    /\ \E n \in AppNames \cup {Root}, lifetime \in Lifetimes :
          LET w == [World EXCEPT !.table.received = @ + 1]
          IN CommitOp(OnInterest(w, Root, Interest(n, FALSE, lifetime, w.table.received),
                                 w.table.received),
                      [op |-> "onInterest", node |-> n, returns |-> TRUE])

\* Time passes.
Tick ==
    /\ now < MaxTime
    /\ CommitOp([World EXCEPT !.now = @ + 1], [op |-> "tick", node |-> Root, returns |-> TRUE])

InitPending == InitObserved(TRUE)

NextPending ==
    \/ AppObserve
    \/ AppGetChild
    \/ AppSetData({1})
    \/ AppSerializeObject({1})
    \/ AppObjectNeeded
    \/ FaceOnData({1})
    \/ FaceOnInterest
    \/ Tick

SpecPending == InitPending /\ [][NextPending]_vars

(***************************************************************************)
(* SpecListeners: an application builds the tree of a root, a child and two *)
(* grandchildren with getChild, registers onStateChanged and                *)
(* onValidateStateChanged callbacks on the nodes, some of which remove a    *)
(* callback of their node when they are called, and asks for the objects of *)
(* the root and of a grandchild, which the network answers.                  *)
(***************************************************************************)
ListenerNames == {<<0>>, <<0, 0>>, <<0, 1>>}     \* the names given to getChild
NeededNames == {Root, <<0, 0>>}                  \* the nodes asked for their object

\* What a registered onStateChanged or onValidateStateChanged callback does:
\* it returns, or it removes a callback and returns.
ListenerFunctions == {AppFunction(k, FALSE, FALSE) : k \in 0..MaxCallbacks}

\* node.getChild(name) with a name that has the node's name as a prefix.
ListenersGetChild ==
    \E self \in nodes, descendantName \in ListenerNames \cup {Root} :
        /\ IsPrefixOf(self, descendantName)
        /\ \E w \in {GetChild(World, self, descendantName)} :
              CommitOp(w, [op |-> "getChild", at |-> self, node |-> descendantName,
                           created |-> w.nodes \ nodes])

\* node.getChild(component)
ListenersGetChildComponent ==
    \E self \in nodes, child \in ListenerNames :
        /\ Parent(child) = self
        /\ \E w \in {GetChildComponent(World, self, child[Len(child)])} :
              CommitOp(w, [op |-> "getChild", at |-> self, node |-> child,
                           created |-> w.nodes \ nodes])

\* node.addOnStateChanged(f)
ListenersAddOnStateChanged ==
    /\ lastCallbackId < MaxCallbacks
    /\ \E self \in nodes, fn \in ListenerFunctions :
          CommitOp(AddOnStateChanged(World, self, fn), [op |-> "add", node |-> self])

\* node.addOnValidateStateChanged(f)
ListenersAddOnValidateStateChanged ==
    /\ lastCallbackId < MaxCallbacks
    /\ \E self \in nodes, fn \in ListenerFunctions :
          CommitOp(AddOnValidateStateChanged(World, self, fn), [op |-> "add", node |-> self])

\* node.objectNeeded(), while no interest is waiting for its answer.
ListenersObjectNeeded ==
    /\ face.interests = EmptyBag
    /\ \E self \in nodes \cap NeededNames :
          CommitOp(ObjectNeeded(World, self, FALSE), [op |-> "objectNeeded", node |-> self])

\* The face delivers the Data that answers the expressed interest.
ListenersOnData ==
    \E interest \in BagToSet(face.interests) :
        LET w == [World EXCEPT !.face.interests = @ (-) SetToBag({interest})]
            dat == Data(interest.name, 1, NoTime, NoSegment, "Sha256WithRsa")
        IN CommitOp(OnData(w, interest.name, interest, dat),
                    [op |-> "onData", node |-> interest.name])

InitListeners ==
    /\ InitTree({Root}, NoHandler)
    /\ table = [exists |-> FALSE, entries |-> <<>>, received |-> 0]
    /\ face = [exists |-> TRUE, interests |-> EmptyBag, signature |-> "Sha256WithRsa"]

NextListeners ==
    \/ ListenersGetChild
    \/ ListenersGetChildComponent
    \/ ListenersAddOnStateChanged
    \/ ListenersAddOnValidateStateChanged
    \/ ListenersObjectNeeded
    \/ ListenersOnData

SpecListeners == InitListeners /\ [][NextListeners]_vars

(***************************************************************************)
(* SpecCallbacks: callbacks that raise.  Either the application has         *)
(* constructed a SegmentStreamHandler and goes on as in SpecStream, where   *)
(* an onSegment callback may raise; or it has not, and it registers         *)
(* onStateChanged, onValidateStateChanged and onObjectNeeded callbacks on   *)
(* the root and on a child, each of which may raise, and asks for objects.  *)
(***************************************************************************)
CallbackNames == {<<0>>}

\* root.getChild(name)
CallbacksGetChild ==
    /\ ~handler.exists
    /\ \E n \in CallbackNames : n \notin nodes /\ Commit(GetChild(World, Root, n))

\* node.addOnStateChanged(f)
CallbacksAddOnStateChanged ==
    /\ ~handler.exists
    /\ lastCallbackId < MaxCallbacks
    /\ \E self \in nodes, raises \in BOOLEAN :
          Commit(AddOnStateChanged(World, self, AppFunction(NoCallback, raises, FALSE)))

\* node.addOnValidateStateChanged(f)
CallbacksAddOnValidateStateChanged ==
    /\ ~handler.exists
    /\ lastCallbackId < MaxCallbacks
    /\ \E self \in nodes, raises \in BOOLEAN :
          Commit(AddOnValidateStateChanged(World, self,
                                           AppFunction(NoCallback, raises, FALSE)))

\* node.addOnObjectNeeded(f)
CallbacksAddOnObjectNeeded ==
    /\ ~handler.exists
    /\ lastCallbackId < MaxCallbacks
    /\ \E self \in nodes, raises \in BOOLEAN, produces \in BOOLEAN :
          Commit(AddOnObjectNeeded(World, self, AppFunction(NoCallback, raises, produces)))

\* node.objectNeeded(), while no interest is waiting for its answer.
CallbacksObjectNeeded ==
    /\ ~handler.exists
    /\ face.interests = EmptyBag
    /\ \E self \in nodes : Commit(Request(World, self))

\* The face delivers the Data that answers the expressed interest.
CallbacksOnData ==
    /\ ~handler.exists
    /\ \E interest \in BagToSet(face.interests) :
          Commit(Respond(World, interest, ResponseTo(interest)))

InitCallbacks == InitListeners \/ InitStream

NextCallbacks ==
    \/ CallbacksGetChild
    \/ CallbacksAddOnStateChanged
    \/ CallbacksAddOnValidateStateChanged
    \/ CallbacksAddOnObjectNeeded
    \/ CallbacksObjectNeeded
    \/ CallbacksOnData
    \/ NextStream

SpecCallbacks == InitCallbacks /\ [][NextCallbacks]_vars

(***************************************************************************)
(* SpecFetch: asking for objects.  On the tree of the root and one child    *)
(* the application registers onObjectNeeded and onStateChanged callbacks,   *)
(* attaches Data, which the face delivers with a freshness period,          *)
(* serializes objects and asks for the object of a node, with mustBeFresh   *)
(* or without; time passes and the face delivers Data.                      *)
(***************************************************************************)
FetchNames == {<<0>>}

\* node.addOnObjectNeeded(f), where f returns True or False
FetchAddOnObjectNeeded ==
    /\ lastCallbackId < MaxCallbacks
    /\ \E self \in nodes, produces \in BOOLEAN :
          CommitOp(AddOnObjectNeeded(World, self, AppFunction(NoCallback, FALSE, produces)),
                   [op |-> "add", node |-> self])

\* node.addOnStateChanged(f)
FetchAddOnStateChanged ==
    /\ lastCallbackId < MaxCallbacks
    /\ \E self \in nodes :
          CommitOp(AddOnStateChanged(World, self, Plain), [op |-> "add", node |-> self])

\* node.setData(data)
FetchSetData ==
    \E n \in nodes :
        CommitOp(SetData(World, n, Data(n, 1, NoTime, NoSegment, "Sha256WithRsa")),
                 [op |-> "setData", node |-> n])

\* node.serializeObject(obj)
FetchSerializeObject ==
    \E n \in nodes :
        CommitOp(SerializeObject(World, n, 2, TRUE), [op |-> "serializeObject", node |-> n])

\* node.objectNeeded(mustBeFresh), while no interest is waiting for its answer.
FetchObjectNeeded ==
    /\ face.interests = EmptyBag
    /\ \E n \in nodes, mustBeFresh \in BOOLEAN :
          CommitOp(ObjectNeeded(World, n, mustBeFresh),
                   [op |-> "objectNeeded", node |-> n, mustBeFresh |-> mustBeFresh])

\* The face delivers the Data that answers the expressed interest: a packet that
\* is fresh for one unit of time.
FetchOnData ==
    \E interest \in BagToSet(face.interests) :
        CommitOp(Respond(World, interest,
                         Data(interest.name, 1, 1, NoSegment, "Sha256WithRsa")),
                 [op |-> "onData", node |-> interest.name])

\* Time passes.
FetchTick ==
    /\ now < MaxTime
    /\ CommitOp([World EXCEPT !.now = @ + 1], [op |-> "tick"])

InitFetch ==
    /\ InitTree({Root} \cup FetchNames, NoHandler)
    /\ table = [exists |-> FALSE, entries |-> <<>>, received |-> 0]
    /\ face = [exists |-> TRUE, interests |-> EmptyBag, signature |-> "Sha256WithRsa"]

NextFetch ==
    \/ FetchAddOnObjectNeeded
    \/ FetchAddOnStateChanged
    \/ FetchSetData
    \/ FetchSerializeObject
    \/ FetchObjectNeeded
    \/ FetchOnData
    \/ FetchTick

SpecFetch == InitFetch /\ [][NextFetch]_vars

(***************************************************************************)
(* SpecRetry: interests that time out or are refused.  On the tree of the   *)
(* root and one child the application sets maximum interest lifetimes and   *)
(* asks for the object of a node; the face answers the interest that waits  *)
(* with Data, with a network nack or with a timeout.  The face reports a    *)
(* timeout whenever an interest waits: Data and nacks may stay away for     *)
(* ever, a timeout does not.                                                *)
(***************************************************************************)
RetryNames == {<<0>>}
MaxInterestLifetimes == {4000, 8000}     \* the values given to setMaxInterestLifetime
NetworkNacks == {"NoRoute", "Congestion"}              \* the reasons of the network nacks

\* node.setMaxInterestLifetime(lifetime), once for a node
RetrySetMaxInterestLifetime ==
    \E self \in nodes, lifetime \in MaxInterestLifetimes :
        /\ maxInterestLifetime[self] = NoTime
        /\ CommitOp(SetMaxInterestLifetime(World, self, lifetime),
                    [op |-> "setMaxInterestLifetime", node |-> self])

\* node.objectNeeded(), while no interest is waiting for its answer.
RetryObjectNeeded ==
    /\ face.interests = EmptyBag
    /\ \E n \in nodes :
          CommitOp(ObjectNeeded(World, n, FALSE),
                   [op |-> "objectNeeded", node |-> n, mustBeFresh |-> FALSE])

\* The interest has waited for its lifetime: the face removes it and calls the
\* onTimeout given to expressInterest.
RetryOnTimeout ==
    \E pending \in BagToSet(face.interests) :
        CommitOp(ReExpressOnTimeout([World EXCEPT !.face.interests =
                                                     @ (-) SetToBag({pending})],
                                    pending),
                 [op |-> "onTimeout", node |-> pending.name, pending |-> pending])

\* A network nack arrives for the interest: the face removes it and calls the
\* onNetworkNack given to expressInterest.
RetryOnNetworkNack ==
    \E pending \in BagToSet(face.interests), nack \in NetworkNacks :
        /\ pending.onNetworkNack
        /\ CommitOp(OnNetworkNack([World EXCEPT !.face.interests =
                                                    @ (-) SetToBag({pending})],
                                  pending.name, nack),
                    [op |-> "onNetworkNack", node |-> pending.name, pending |-> pending,
                     nack |-> nack])

\* The face delivers the Data that answers the interest.
RetryOnData ==
    \E pending \in BagToSet(face.interests) :
        CommitOp(Respond(World, pending,
                         Data(pending.name, 1, NoTime, NoSegment, "Sha256WithRsa")),
                 [op |-> "onData", node |-> pending.name, pending |-> pending])

InitRetry ==
    /\ InitTree({Root} \cup RetryNames, NoHandler)
    /\ table = [exists |-> FALSE, entries |-> <<>>, received |-> 0]
    /\ face = [exists |-> TRUE, interests |-> EmptyBag, signature |-> "Sha256WithRsa"]

NextRetry ==
    \/ RetrySetMaxInterestLifetime
    \/ RetryObjectNeeded
    \/ RetryOnTimeout
    \/ RetryOnNetworkNack
    \/ RetryOnData

SpecRetry == InitRetry /\ [][NextRetry]_vars /\ WF_vars(RetryOnTimeout)

(***************************************************************************)
(* SpecRefused: as SpecRetry, with onStateChanged callbacks that the        *)
(* application registers on the nodes, and without the promise that a       *)
(* timeout is reported.                                                     *)
(***************************************************************************)
\* node.addOnStateChanged(f)
RefusedAddOnStateChanged ==
    /\ lastCallbackId < MaxCallbacks
    /\ \E self \in nodes :
          CommitOp(AddOnStateChanged(World, self, Plain), [op |-> "add", node |-> self])

NextRefused ==
    \/ RefusedAddOnStateChanged
    \/ NextRetry

SpecRefused == InitRetry /\ [][NextRefused]_vars

(***************************************************************************)
(* SpecReceive: Data that arrives, with and without a decryptor.  On the    *)
(* tree of the root and one child the application registers onStateChanged  *)
(* and onValidateStateChanged callbacks, sets one decryptor and asks for    *)
(* the object of a node.  The face answers with a Data packet for the name  *)
(* of the interest or for a name under it, whose content is plain or the    *)
(* encoding of an EncryptedContent.  A decryptor answers inside decrypt or  *)
(* later, with the plaintext or with an error.                              *)
(***************************************************************************)
ReceiveNames == {<<0>>}
Decryptors == [succeeds : BOOLEAN, later : BOOLEAN]
ReceivedContents == {1, EncryptedContentOf(1)}    \* plain, and encrypted

\* node.addOnStateChanged(f)
ReceiveAddOnStateChanged ==
    /\ lastCallbackId < MaxCallbacks
    /\ \E self \in nodes :
          CommitOp(AddOnStateChanged(World, self, Plain), [op |-> "add", node |-> self])

\* node.addOnValidateStateChanged(f)
ReceiveAddOnValidateStateChanged ==
    /\ lastCallbackId < MaxCallbacks
    /\ \E self \in nodes :
          CommitOp(AddOnValidateStateChanged(World, self, Plain),
                   [op |-> "add", node |-> self])

\* node.setDecryptor(decryptor), once for the tree and before anything is asked
ReceiveSetDecryptor ==
    /\ \A n \in nodes : decryptor[n] = NoDecryptor /\ state[n] = NAME_EXISTS
    /\ \E self \in nodes, d \in Decryptors :
          CommitOp(SetDecryptor(World, self, d), [op |-> "setDecryptor", node |-> self])

\* node.objectNeeded(), while no interest is waiting for its answer.
ReceiveObjectNeeded ==
    /\ face.interests = EmptyBag
    /\ \E n \in nodes :
          CommitOp(ObjectNeeded(World, n, FALSE),
                   [op |-> "objectNeeded", node |-> n, mustBeFresh |-> FALSE])

\* The face delivers a Data packet that matches the interest.
ReceiveOnData ==
    \E pending \in BagToSet(face.interests), name \in nodes, content \in ReceivedContents :
        /\ IsPrefixOf(pending.name, name)
        /\ CommitOp(Respond(World, pending,
                            Data(name, content, NoTime, NoSegment, "Sha256WithRsa")),
                    [op |-> "onData", node |-> pending.name, name |-> name,
                     content |-> content])

\* The decryptor calls the onSuccess or the onError that decrypt was given.
ReceiveDecryptorAnswers ==
    \E call \in decrypting :
        CommitOp(DecryptorAnswers([World EXCEPT !.decrypting = @ \ {call}],
                                  call.node, call.succeeds, call.content),
                 [op |-> "decryptorAnswers", node |-> call.node,
                  succeeds |-> call.succeeds, content |-> call.content])

InitReceive ==
    /\ InitTree({Root} \cup ReceiveNames, NoHandler)
    /\ table = [exists |-> FALSE, entries |-> <<>>, received |-> 0]
    /\ face = [exists |-> TRUE, interests |-> EmptyBag, signature |-> "Sha256WithRsa"]

NextReceive ==
    \/ ReceiveAddOnStateChanged
    \/ ReceiveAddOnValidateStateChanged
    \/ ReceiveSetDecryptor
    \/ ReceiveObjectNeeded
    \/ ReceiveOnData
    \/ ReceiveDecryptorAnswers

SpecReceive == InitReceive /\ [][NextReceive]_vars

(***************************************************************************)
(* SpecUnregister: callbacks that are removed.  On the tree of the root and *)
(* one child the application registers callbacks of the three kinds, calls  *)
(* removeCallback with an ID on a node, and asks for the object of a node;  *)
(* the face answers the interest with Data.                                 *)
(***************************************************************************)
UnregisterNames == {<<0>>}

\* node.addOnStateChanged(f)
UnregisterAddOnStateChanged ==
    /\ lastCallbackId < MaxCallbacks
    /\ \E self \in nodes :
          CommitOp(AddOnStateChanged(World, self, Plain), [op |-> "add", node |-> self])

\* node.addOnValidateStateChanged(f)
UnregisterAddOnValidateStateChanged ==
    /\ lastCallbackId < MaxCallbacks
    /\ \E self \in nodes :
          CommitOp(AddOnValidateStateChanged(World, self, Plain),
                   [op |-> "add", node |-> self])

\* node.addOnObjectNeeded(f), with an f that returns False
UnregisterAddOnObjectNeeded ==
    /\ lastCallbackId < MaxCallbacks
    /\ \E self \in nodes :
          CommitOp(AddOnObjectNeeded(World, self, Plain), [op |-> "add", node |-> self])

\* node.removeCallback(id), with an ID that was returned or with the next one,
\* which is not known yet.
UnregisterRemoveCallback ==
    \E self \in nodes, id \in 1..(lastCallbackId + 1) :
        /\ Cardinality(removed) < MaxRemoved
        /\ CommitOp([RemoveCallback(World, self, id) EXCEPT
                        !.removed = @ \cup {<<self, id>>}],
                    [op |-> "removeCallback", node |-> self, id |-> id])

\* node.objectNeeded(), while no interest is waiting for its answer.
UnregisterObjectNeeded ==
    /\ face.interests = EmptyBag
    /\ \E n \in nodes :
          CommitOp(ObjectNeeded(World, n, FALSE),
                   [op |-> "objectNeeded", node |-> n, mustBeFresh |-> FALSE])

\* The face delivers the Data that answers the interest.
UnregisterOnData ==
    \E pending \in BagToSet(face.interests) :
        CommitOp(Respond(World, pending,
                         Data(pending.name, 1, NoTime, NoSegment, "Sha256WithRsa")),
                 [op |-> "onData", node |-> pending.name])

InitUnregister ==
    /\ InitTree({Root} \cup UnregisterNames, NoHandler)
    /\ table = [exists |-> FALSE, entries |-> <<>>, received |-> 0]
    /\ face = [exists |-> TRUE, interests |-> EmptyBag, signature |-> "Sha256WithRsa"]

NextUnregister ==
    \/ UnregisterAddOnStateChanged
    \/ UnregisterAddOnValidateStateChanged
    \/ UnregisterAddOnObjectNeeded
    \/ UnregisterRemoveCallback
    \/ UnregisterObjectNeeded
    \/ UnregisterOnData

SpecUnregister == InitUnregister /\ [][NextUnregister]_vars

(***************************************************************************)
(* SpecTable: the pending incoming interest table on its own.  Interests    *)
(* for three names, with a lifetime or without one, are added to the table  *)
(* of the root, satisfyInterests is called with Data packets for the three  *)
(* names, and time passes.  The face an interest came from has the number   *)
(* of the interest as its ID, negated when the face has lost its connection *)
(* and its send raises.                                                     *)
(***************************************************************************)
TableNames == {Root, <<0>>, <<1>>}

\* table.add(interest, face)
TableAddInterest ==
    /\ table.received < MaxEntries
    /\ \E n \in TableNames, lifetime \in Lifetimes :
          \E w \in {[World EXCEPT !.table.received = @ + 1]} :
              \E faceId \in {w.table.received, -w.table.received} :
                  CommitOp(TableAdd(w, Interest(n, FALSE, lifetime, w.table.received),
                                    faceId),
                           [op |-> "add", node |-> n, lifetime |-> lifetime,
                            nonce |-> w.table.received])

\* table.satisfyInterests(data)
TableSatisfyInterests ==
    \E n \in TableNames :
        CommitOp(SatisfyInterests(World, Data(n, 1, NoTime, NoSegment, "Sha256WithRsa")),
                 [op |-> "satisfyInterests", node |-> n])

\* Time passes.
TableTick ==
    /\ now < MaxTime
    /\ CommitOp([World EXCEPT !.now = @ + 1], [op |-> "tick", node |-> Root])

InitTable ==
    /\ InitTree({Root}, NoHandler)
    /\ table = [exists |-> TRUE, entries |-> <<>>, received |-> 0]
    /\ face = [exists |-> TRUE, interests |-> EmptyBag, signature |-> "Sha256WithRsa"]

NextTable ==
    \/ TableAddInterest
    \/ TableSatisfyInterests
    \/ TableTick

SpecTable == InitTable /\ [][NextTable]_vars

(***************************************************************************)
(* SpecSettings: the application sets and clears the face, the key chain,   *)
(* the new-data MetaInfo, the decryptor, the handler and the maximum        *)
(* interest lifetime on the nodes of a tree of depth two.                   *)
(***************************************************************************)
MaxSettings == 2        \* how many settings the tree holds at a time
SettingsNames == {Root, <<0>>, <<0, 0>>, <<1>>}
Kinds == {"face", "keyChain", "newDataMetaInfo", "decryptor", "handler",
          "maxInterestLifetime"}

\* What None is for a setting, and the values the application gives it.
NoneOf(kind) ==
    CASE kind = "face" -> NoFace
      [] kind = "keyChain" -> NoKeyChain
      [] kind = "newDataMetaInfo" -> NoMetaInfo
      [] kind = "decryptor" -> NoDecryptor
      [] kind = "handler" -> NoOwnHandler
      [] kind = "maxInterestLifetime" -> NoTime

ValuesOf(kind) ==
    CASE kind = "face" -> {1, 2}
      [] kind = "keyChain" -> {1, 2}
      [] kind = "newDataMetaInfo" -> {NoTime, 1}
      [] kind = "decryptor" -> {[succeeds |-> TRUE, later |-> FALSE],
                                [succeeds |-> FALSE, later |-> FALSE]}
      [] kind = "handler" -> {1, 2}
      [] kind = "maxInterestLifetime" -> MaxInterestLifetimes

\* The attribute of the nodes that a setter assigns.
OwnOf(w, kind) ==
    CASE kind = "face" -> w.ownFace
      [] kind = "keyChain" -> w.keyChain
      [] kind = "newDataMetaInfo" -> w.newDataMetaInfo
      [] kind = "decryptor" -> w.decryptor
      [] kind = "handler" -> w.ownHandler
      [] kind = "maxInterestLifetime" -> w.maxInterestLifetime

\* The setter and the getter of a setting.
SetterOf(w, kind, self, v) ==
    CASE kind = "face" -> SetFace(w, self, v)
      [] kind = "keyChain" -> SetKeyChain(w, self, v)
      [] kind = "newDataMetaInfo" -> SetNewDataMetaInfo(w, self, v)
      [] kind = "decryptor" -> SetDecryptor(w, self, v)
      [] kind = "handler" -> SetOwnHandler(w, self, v)
      [] kind = "maxInterestLifetime" -> SetMaxInterestLifetime(w, self, v)

GetterOf(w, kind, namespace) ==
    CASE kind = "face" -> GetFace(w, namespace)
      [] kind = "keyChain" -> GetKeyChain(w, namespace)
      [] kind = "newDataMetaInfo" -> GetNewDataMetaInfo(w, namespace)
      [] kind = "decryptor" -> GetDecryptor(w, namespace)
      [] kind = "handler" -> GetHandler(w, namespace)
      [] kind = "maxInterestLifetime" -> GetMaxInterestLifetime(w, namespace)

\* How many settings the tree holds.
SettingsCount(w) ==
    Cardinality({s \in Kinds \X SettingsNames : OwnOf(w, s[1])[s[2]] # NoneOf(s[1])})

\* The application calls a setter on a node, with a value or with None.
SettingsSet ==
    \E kind \in Kinds, n \in SettingsNames :
        \E v \in ValuesOf(kind) \cup {NoneOf(kind)} :
            \E w \in {SetterOf(World, kind, n, v)} :
                /\ SettingsCount(w) <= MaxSettings
                /\ Commit(w)

InitSettings ==
    /\ InitTree(SettingsNames, NoHandler)
    /\ table = [exists |-> FALSE, entries |-> <<>>, received |-> 0]
    /\ face = [interests |-> EmptyBag, signature |-> "Sha256WithRsa"]

NextSettings == SettingsSet

SpecSettings == InitSettings /\ [][NextSettings]_vars

(***************************************************************************)
(* SpecProduce: a producer.  The application gives the root a KeyChain,     *)
(* sets the maximum segment payload length of a SegmentStreamHandler and    *)
(* calls setObject for the node ProduceNode,                                *)
(* once, with any object of up to MaxObjectSize bytes.  It may alter one    *)
(* byte of the content of one segment packet afterwards                     *)
(* (getData().setContent), attach a manifest of its own when setObject made *)
(* none, and call verifyWithManifest, under Python 2 or Python 3: setup.py  *)
(* declares both.                                                           *)
(***************************************************************************)
MaxObjectSize == 3      \* the longest object given to setObject
ProduceNode == <<0>>
ManifestNode == Append(ProduceNode, NAME_COMPONENT_MANIFEST)
ObjectBytes == {0, 1}
PayloadLengths == {0, 1, 2}   \* the values given to setMaxSegmentPayloadLength

Objects == UNION {[1..n -> ObjectBytes] : n \in 0..MaxObjectSize}

\* The segment children of ProduceNode, and those that have a Data packet.
SegmentChildren(w) ==
    {n \in w.nodes : Len(n) = Len(ProduceNode) + 1 /\ Parent(n) = ProduceNode
                       /\ IsSegment(n[Len(n)])}

WithData(w) == {n \in SegmentChildren(w) : w.data[n] # NoData}

\* A byte that the application has altered is 2 more than it was.
IsAltered(w, n) == \E i \in 1..Size(w, w.data[n].content) :
                      ToBytes(w, w.data[n].content)[i] \notin ObjectBytes

ProduceSetKeyChain ==
    /\ keyChain[Root] = NoKeyChain
    /\ CommitOp(SetKeyChain(World, Root, 1), [op |-> "setKeyChain", node |-> Root])

ProduceSetMaxSegmentPayloadLength ==
    \E maxSegmentPayloadLength \in PayloadLengths :
        /\ SegmentChildren(World) = {}
        /\ handler.maxSegmentPayloadLength = DefaultMaxSegmentPayloadLength
        /\ CommitOp(SetMaxSegmentPayloadLength(World, maxSegmentPayloadLength),
                    [op |-> "setMaxSegmentPayloadLength",
                     length |-> maxSegmentPayloadLength])

ProduceSetObject ==
    \E bytes \in Objects, useSignatureManifest \in BOOLEAN :
        /\ blobs = <<>>
        /\ SegmentChildren(World) = {}
        /\ ManifestNode \notin nodes
        /\ \E w \in {MakeBlob(World, bytes)} :
              CommitOp(HandlerSetObject(w, ProduceNode, BlobOf(w, bytes),
                                        useSignatureManifest),
                       [op |-> "setObject", node |-> ProduceNode, obj |-> bytes,
                        useSignatureManifest |-> useSignatureManifest,
                        hasKeyChain |-> GetKeyChain(World, ProduceNode) # NoKeyChain])

\* namespace[segment].getData().setContent(...) with one byte changed.
ProduceAlterContent ==
    \E n \in WithData(World) :
        \E i \in 1..Size(World, data[n].content) :
            LET altered == [ToBytes(World, data[n].content) EXCEPT ![i] = @ + 2]
            IN /\ \A m \in WithData(World) : ~IsAltered(World, m)
               /\ \E w \in {MakeBlob(World, altered)} :
                     CommitOp([w EXCEPT !.data[n].content = BlobOf(w, altered)],
                              [op |-> "setContent", node |-> n])

\* The digests of the segments 0 .. count - 1 as they are now, a digest of
\* zeros for a segment that has no packet.
RECURSIVE DigestsOf(_, _)
DigestsOf(w, count) ==
    IF count = 0 THEN <<>>
    ELSE DigestsOf(w, count - 1) \o
         (IF Append(ProduceNode, count - 1) \in WithData(w)
          THEN ImplicitDigest(w, w.data[Append(ProduceNode, count - 1)])
          ELSE Zeros(SHA256_DIGEST_SIZE))

\* namespace[_manifest].serializeObject(Blob(...)) by the application, for the
\* segments that setObject signed one by one: a manifest of the first `count`
\* digests, followed by `stray` more bytes.
ProduceAttachManifest ==
    \E count \in 0..(Cardinality(WithData(World)) + 1), stray \in {0, 1} :
        LET manifestContent == DigestsOf(World, count) \o Zeros(stray)
        IN /\ WithData(World) # {}
           /\ ManifestNode \notin nodes
           /\ \E w \in {MakeBlob(GetChildComponent(World, ProduceNode,
                                                    NAME_COMPONENT_MANIFEST),
                                  manifestContent)} :
                 CommitOp(SerializeObject(w, ManifestNode, BlobOf(w, manifestContent),
                                          TRUE),
                          [op |-> "attachManifest", node |-> ManifestNode,
                           count |-> count, stray |-> stray])

ProduceVerifyWithManifest ==
    \E trueDivision \in BOOLEAN :
        \E r \in {VerifyWithManifest(World, ProduceNode, trueDivision)} :
            CommitOp(r.w, [op |-> "verifyWithManifest", node |-> ProduceNode,
                           python3 |-> trueDivision, result |-> r.result])

InitProduce ==
    /\ InitTree({Root, ProduceNode}, NewHandler)
    /\ table = [exists |-> FALSE, entries |-> <<>>, received |-> 0]
    /\ face = [interests |-> EmptyBag, signature |-> "Sha256WithRsa"]

NextProduce ==
    \/ ProduceSetKeyChain
    \/ ProduceSetMaxSegmentPayloadLength
    \/ ProduceSetObject
    \/ ProduceAlterContent
    \/ ProduceAttachManifest
    \/ ProduceVerifyWithManifest

SpecProduce == InitProduce /\ [][NextProduce]_vars

(***************************************************************************)
(* SpecThreads: two threads register callbacks at the same time, of any     *)
(* kind (addOnStateChanged, addOnValidateStateChanged, addOnObjectNeeded on *)
(* a node, addOnSegment on the handler), and remove them.  A registration   *)
(* is getNextCallbackId, taken apart into the steps another thread can      *)
(* come between, and the assignment to the dictionary:                      *)
(*     with Namespace._lastCallbackIdLock:          acquire                 *)
(*         Namespace._lastCallbackId += 1           read, write             *)
(*         return Namespace._lastCallbackId         return, release         *)
(*     self._on...Callbacks[callbackId] = fn        store                   *)
(***************************************************************************)
MaxRegistrations == 3   \* how many registrations the threads start together
ThreadsNames == {Root, <<0>>}
CallbackKinds == {"state", "validate", "needed", "segment"}

\* A thread calls one of the add methods.
ThreadsCall ==
    \E t \in Threads, kind \in CallbackKinds, n \in ThreadsNames :
        /\ threads.pc[t] = "idle"
        /\ lastCallbackId + Cardinality({u \in Threads : threads.pc[u]
                                             \in {"acquire", "read", "write"}})
              < MaxRegistrations
        /\ kind = "segment" => n = Root
        /\ CommitOp([World EXCEPT !.threads.pc[t] = "acquire",
                                  !.threads.kind[t] = kind,
                                  !.threads.node[t] = n],
                    [op |-> "call"])

\* Lock.__enter__ that does not wait for the lock.
ThreadsAcquireUnlocked ==
    \E t \in Threads :
        /\ threads.pc[t] = "acquire"
        /\ CommitOp([World EXCEPT !.threads.lock = t, !.threads.pc[t] = "read"],
                    [op |-> "acquire"])

\* with Namespace._lastCallbackIdLock: the thread goes on when the lock is free.
ThreadsAcquire ==
    \E t \in Threads :
        /\ threads.pc[t] = "acquire"
        /\ threads.lock = 0
        /\ CommitOp([World EXCEPT !.threads.lock = t, !.threads.pc[t] = "read"],
                    [op |-> "acquire"])

\* Namespace._lastCallbackId += 1 reads the counter
ThreadsRead ==
    \E t \in Threads :
        /\ threads.pc[t] = "read"
        /\ CommitOp([World EXCEPT !.threads.local[t] = lastCallbackId,
                                  !.threads.pc[t] = "write"],
                    [op |-> "read"])

\* and stores what it has read, plus one.
ThreadsWrite ==
    \E t \in Threads :
        /\ threads.pc[t] = "write"
        /\ CommitOp([World EXCEPT !.lastCallbackId = threads.local[t] + 1,
                                  !.threads.pc[t] = "return"],
                    [op |-> "write"])

\* return Namespace._lastCallbackId reads the counter again,
ThreadsReturn ==
    \E t \in Threads :
        /\ threads.pc[t] = "return"
        /\ CommitOp([World EXCEPT !.threads.result[t] = lastCallbackId,
                                  !.threads.returned = Append(@, lastCallbackId),
                                  !.threads.pc[t] = "release"],
                    [op |-> "return"])

\* and leaving the with block releases the lock.
ThreadsRelease ==
    \E t \in Threads :
        /\ threads.pc[t] = "release"
        /\ CommitOp([World EXCEPT !.threads.lock = 0, !.threads.pc[t] = "store"],
                    [op |-> "release"])

\* dictionary[callbackId] = fn: a new key, or a new value for the key.
Stored(keys, callbackId) ==
    IF callbackId \in Range(keys) THEN keys ELSE Append(keys, callbackId)

\* self._on...Callbacks[callbackId] = fn of the add method that was called.
ThreadsStore ==
    \E t \in Threads :
        LET callbackId == threads.result[t]
            n == threads.node[t]
            w == [World EXCEPT !.threads.pc[t] = "idle",
                               !.threads.kind[t] = "none",
                               !.threads.node[t] = Root,
                               !.threads.local[t] = 0,
                               !.threads.result[t] = 0,
                               !.callback = (callbackId :> Plain) @@ @]
        IN /\ threads.pc[t] = "store"
           /\ CommitOp(CASE threads.kind[t] = "state" ->
                             [w EXCEPT !.onStateChangedCallbacks[n] =
                                           Stored(@, callbackId)]
                          [] threads.kind[t] = "validate" ->
                             [w EXCEPT !.onValidateStateChangedCallbacks[n] =
                                           Stored(@, callbackId)]
                          [] threads.kind[t] = "needed" ->
                             [w EXCEPT !.onObjectNeededCallbacks[n] =
                                           Stored(@, callbackId)]
                          [] threads.kind[t] = "segment" ->
                             [w EXCEPT !.handler.onSegmentCallbacks =
                                           Stored(@, callbackId)],
                       [op |-> "store"])

\* A thread calls removeCallback of a node with an ID that was returned.
ThreadsRemoveCallback ==
    \E t \in Threads, n \in ThreadsNames :
        \E i \in 1..Len(threads.returned) :
            /\ threads.pc[t] = "idle"
            /\ CommitOp(RemoveCallback(World, n, threads.returned[i]),
                        [op |-> "removeCallback", id |-> threads.returned[i]])

InitThreads ==
    /\ InitTree(ThreadsNames, NewHandler)
    /\ table = [exists |-> FALSE, entries |-> <<>>, received |-> 0]
    /\ face = [interests |-> EmptyBag, signature |-> "Sha256WithRsa"]

NextThreads ==
    \/ ThreadsCall
    \/ ThreadsAcquire
    \/ ThreadsRead
    \/ ThreadsWrite
    \/ ThreadsReturn
    \/ ThreadsRelease
    \/ ThreadsStore
    \/ ThreadsRemoveCallback

SpecThreads == InitThreads /\ [][NextThreads]_vars

(***************************************************************************)
(* SpecPipeline: a SegmentStream.  The application sets the pipeline size   *)
(* and starts the stream; the producer has the segments 0..MaxStreamSegment *)
(* and names the final block in the last segment, and in the others or not. *)
(***************************************************************************)
MaxStreamSegment == 3   \* the final segment number of the stream
PipelineArguments == {0, 1, 2}     \* the values given to setInterestPipelineSize

\* stream.setInterestPipelineSize(n), which raises for n < 1.
PipelineSetInterestPipelineSize ==
    \E n \in PipelineArguments :
        CommitOp(RaiseIf(n < 1, [World EXCEPT !.stream =
                                    IF n < 1 THEN @ ELSE SetInterestPipelineSize(@, n)]),
                 [op |-> "setInterestPipelineSize", size |-> n,
                  before |-> stream.interestPipelineSize])

\* SegmentStream.start
PipelineStart ==
    /\ stream.expressed = {} /\ stream.maxRetrievedSegmentNumber = -1
    /\ stream.store = <<>>
    /\ CommitOp([World EXCEPT !.stream.expressed = {FirstInterest}],
                [op |-> "start"])

\* The face answers an interest of the stream with the segment it asks for:
\* segment 0 for the name of the stream, the last segment for the rightmost child.
PipelineOnData ==
    \E i \in stream.expressed, declares \in BOOLEAN :
        LET segmentNumber == CASE i = FirstInterest -> 0
                               [] i = LastInterest -> MaxStreamSegment
                               [] OTHER -> i
        IN /\ segmentNumber <= MaxStreamSegment
           /\ CommitOp([World EXCEPT !.stream =
                            SegmentStreamOnData([@ EXCEPT !.expressed = @ \ {i}],
                                                segmentNumber,
                                                IF declares \/ segmentNumber = MaxStreamSegment
                                                THEN MaxStreamSegment ELSE NoSegment)],
                       [op |-> "onData", segment |-> segmentNumber])

InitPipeline ==
    /\ InitTree({Root}, NoHandler)
    /\ table = [exists |-> FALSE, entries |-> <<>>, received |-> 0]
    /\ face = [interests |-> EmptyBag, signature |-> "Sha256WithRsa"]

NextPipeline ==
    \/ PipelineSetInterestPipelineSize
    \/ PipelineStart
    \/ PipelineOnData

SpecPipeline == InitPipeline /\ [][NextPipeline]_vars

(***************************************************************************)
(* SpecForward: requests.  On the tree of the root and one child the        *)
(* application gives the root a KeyChain, registers onObjectNeeded          *)
(* callbacks, of which some produce the object during the callback, and     *)
(* asks for the object of a node; the face delivers Data.                   *)
(***************************************************************************)
MaxForwardCallbacks == 2    \* how many onObjectNeeded callbacks the application registers
ForwardNames == {<<0>>, <<0, 0>>}

\* root.setKeyChain(keyChain)
ForwardSetKeyChain ==
    /\ keyChain[Root] = NoKeyChain
    /\ CommitOp(SetKeyChain(World, Root, 1), [op |-> "setKeyChain", node |-> Root])

\* node.addOnObjectNeeded(f), where f produces during the callback, or returns
\* True or False only.
ForwardAddOnObjectNeeded ==
    /\ lastCallbackId < MaxForwardCallbacks
    /\ \E self \in nodes, produces \in BOOLEAN, f \in {"producer", "app"} :
          CommitOp(AddOnObjectNeeded(World, self,
                                     IF f = "producer" THEN AppProducer
                                     ELSE AppFunction(NoCallback, FALSE, produces)),
                   [op |-> "add", node |-> self])

\* root[name].objectNeeded(), while no interest is waiting for its answer.
ForwardObjectNeeded ==
    /\ face.interests = EmptyBag
    /\ \E n \in ForwardNames :
          CommitOp(Request(World, n), [op |-> "objectNeeded", node |-> n])

\* The face delivers the Data that answers the expressed interest.
ForwardOnData ==
    \E interest \in BagToSet(face.interests) :
        CommitOp(Respond(World, interest,
                         Data(interest.name, 1, NoTime, NoSegment, "Sha256WithRsa")),
                 [op |-> "onData", node |-> interest.name])

InitForward ==
    /\ InitTree({Root, <<0>>}, NoHandler)
    /\ table = [exists |-> FALSE, entries |-> <<>>, received |-> 0]
    /\ face = [exists |-> TRUE, interests |-> EmptyBag, signature |-> "Sha256WithRsa"]

NextForward ==
    \/ ForwardSetKeyChain
    \/ ForwardAddOnObjectNeeded
    \/ ForwardObjectNeeded
    \/ ForwardOnData

SpecForward == InitForward /\ [][NextForward]_vars

(***************************************************************************)
(* SpecConsume: the consumer of test_generalized_object.  The producer has  *)
(* published, under the name of ConsumeNode, the _meta packet of a content  *)
(* meta info with hasSegments and the segments 0..MaxSegment, each naming   *)
(* MaxSegment as the final block.  The consumer runs the statement of       *)
(* startConsumer; it may go on to call objectNeeded() on the node; the face *)
(* delivers a packet of the producer for every interest that it matches.    *)
(***************************************************************************)
MaxConsumeInterests == 3    \* how many interests of the consumer wait in the face
ConsumeNode == <<0>>

\* The ContentMetaInfo of startProducer; the content type is a number here.
ProducerMeta ==
    [contentType |-> 4, timestamp |-> 1, hasSegments |-> TRUE, other |-> <<7>>]

\* ContentMetaInfo.wireEncode: the fields in order, the "other" bytes last and
\* only when there are some.
WireEncode(meta) ==
    <<meta.contentType, meta.timestamp, IF meta.hasSegments THEN 1 ELSE 0>> \o meta.other

\* The bytes of segment k of the producer: segments of one and of two bytes.
SegmentBytes(k) == [i \in 1..(1 + (k % 2)) |-> 10 + k]

\* The Blobs of the packets, in the table of the consumer.
ProducerBlobs ==
    <<WireEncode(ProducerMeta)>> \o [k \in 1..(MaxSegment + 1) |-> SegmentBytes(k - 1)]

\* The packets made by serializeObject in startProducer.
ProducerPackets ==
    {Data(Append(ConsumeNode, NAME_COMPONENT_META), 1, NoTime, NoSegment, "Sha256WithRsa")}
    \cup {Data(Append(ConsumeNode, k), k + 2, NoTime, MaxSegment, "Sha256WithRsa") :
             k \in Segments}

\* startConsumer: prefixNamespace.setHandler(GeneralizedObjectHandler(
\* onGeneralizedObject)).objectNeeded().  The argument of setHandler is
\* evaluated first; it raises, so that neither setHandler nor objectNeeded is
\* called.
StartConsumer(w, prefix) == NewGeneralizedObjectHandler(w)

ConsumeStart ==
    /\ ~consumer.started
    /\ CommitOp(StartConsumer([World EXCEPT !.consumer.started = TRUE], ConsumeNode),
                [op |-> "startConsumer", node |-> ConsumeNode])

\* The consumer calls objectNeeded() on the node all the same.
ConsumeObjectNeeded ==
    /\ consumer.started
    /\ BagCardinality(face.interests) < MaxConsumeInterests
    /\ CommitOp(Request(World, ConsumeNode), [op |-> "objectNeeded", node |-> ConsumeNode])

\* The face delivers a packet of the producer that matches an expressed interest.
ConsumeOnData ==
    \E interest \in BagToSet(face.interests) :
        \E dat \in {p \in ProducerPackets : MatchesData(interest, p)} :
            CommitOp(Respond(World, interest, dat), [op |-> "onData", node |-> dat.name])

\* An expressed interest times out: the face calls the onTimeout made by
\* ExponentialReExpress.
ConsumeOnTimeout ==
    \E interest \in BagToSet(face.interests) :
        CommitOp(ReExpressOnTimeout([World EXCEPT !.face.interests =
                                                    @ (-) SetToBag({interest})],
                                    interest),
                 [op |-> "onTimeout", node |-> interest.name])

InitConsume ==
    /\ InitTreeWithBlobs({Root, ConsumeNode}, NoHandler, ProducerBlobs)
    /\ table = [exists |-> FALSE, entries |-> <<>>, received |-> 0]
    /\ face = [exists |-> TRUE, interests |-> EmptyBag, signature |-> "Sha256WithRsa"]

NextConsume ==
    \/ ConsumeStart
    \/ ConsumeObjectNeeded
    \/ ConsumeOnData
    \/ ConsumeOnTimeout

\* The face goes on with its events: processEvents delivers what has arrived.
SpecConsume ==
    InitConsume /\ [][NextConsume]_vars /\ WF_vars(ConsumeStart) /\ WF_vars(ConsumeOnData)

(***************************************************************************)
(* SpecConstruct: an application constructs its handler, either a          *)
(* SegmentStreamHandler (with or without a namespace and an onSegment      *)
(* callback) or a SegmentedObjectHandler, sets its pipeline size and       *)
(* initial interest count, attaches it to StreamNode when the constructor  *)
(* has not done so, and fetches the stream, whose segments the face        *)
(* delivers.                                                               *)
(***************************************************************************)
\* handler = SegmentStreamHandler(namespace, onSegment)
ConstructSegmentStreamHandler ==
    /\ ~handler.exists
    /\ \E namespace \in {NoNamespace, StreamNode},
          onSegment \in {NoFunction, AppFunction(NoCallback, FALSE, FALSE)} :
          CommitOp(NewSegmentStreamHandler(World, namespace, onSegment),
                   [op |-> "SegmentStreamHandler", node |-> namespace])

\* handler = SegmentedObjectHandler()
ConstructSegmentedObjectHandler ==
    /\ ~handler.exists
    /\ CommitOp(NewSegmentedObjectHandler(World),
                [op |-> "SegmentedObjectHandler", node |-> NoNamespace])

\* handler.setInterestPipelineSize(n), before the handler is attached.
ConstructSetInterestPipelineSize ==
    /\ handler.exists
    /\ ~Attached
    /\ handler.interestPipelineSize = NewHandler.interestPipelineSize
    /\ \E n \in PipelineSizes :
          CommitOp([World EXCEPT !.handler.interestPipelineSize = n],
                   [op |-> "setInterestPipelineSize", node |-> NoNamespace])

\* handler.setInitialInterestCount(n), before the handler is attached.
ConstructSetInitialInterestCount ==
    /\ handler.exists
    /\ ~Attached
    /\ handler.initialInterestCount = NewHandler.initialInterestCount
    /\ \E n \in InitialInterestCounts :
          CommitOp([World EXCEPT !.handler.initialInterestCount = n],
                   [op |-> "setInitialInterestCount", node |-> NoNamespace])

\* StreamNode.setHandler(handler)
ConstructSetHandler ==
    /\ handler.exists
    /\ ~Attached
    /\ CommitOp(SetHandler(World, StreamNode), [op |-> "setHandler", node |-> StreamNode])

\* StreamNode.objectNeeded(), or StreamNode[segment].objectNeeded()
ConstructObjectNeeded ==
    /\ Attached
    /\ BagCardinality(face.interests) < MaxInterests
    /\ \E n \in {StreamNode} \cup {Append(StreamNode, k) : k \in Segments} :
          CommitOp(Request(World, n), [op |-> "objectNeeded", node |-> n])

\* The face delivers the Data that answers an expressed interest for a segment.
ConstructOnData ==
    \E interest \in BagToSet(face.interests) :
        /\ Len(interest.name) = Len(StreamNode) + 1
        /\ interest.name[Len(interest.name)] \in Segments
        /\ CommitOp(Respond(World, interest, ResponseTo(interest)),
                    [op |-> "onData", node |-> interest.name])

InitConstruct ==
    /\ InitTree({Root, StreamNode}, NoHandler)
    /\ table = [exists |-> FALSE, entries |-> <<>>, received |-> 0]
    /\ face = [exists |-> TRUE, interests |-> EmptyBag, signature |-> "Sha256WithRsa"]

NextConstruct ==
    \/ ConstructSegmentStreamHandler
    \/ ConstructSegmentedObjectHandler
    \/ ConstructSetInterestPipelineSize
    \/ ConstructSetInitialInterestCount
    \/ ConstructSetHandler
    \/ ConstructObjectNeeded
    \/ ConstructOnData

\* A step of ConstructOnData, told by what it needs and by the operation it
\* leaves in lastOp, which no other step of NextConstruct leaves there.
ConstructDelivery ==
    /\ \E pending \in BagToSet(face.interests) :
          /\ Len(pending.name) = Len(StreamNode) + 1
          /\ pending.name[Len(pending.name)] \in Segments
    /\ \E k \in Segments : lastOp' = [op |-> "onData", node |-> Append(StreamNode, k)]

\* The face goes on with its events: processEvents delivers what has arrived.
\* The condition is on lastOp: a delivery that repeats the one before it leaves
\* lastOp alone, and it takes an interest from the face, so that only finitely
\* many of them follow one another.
SpecConstruct == InitConstruct /\ [][NextConstruct]_vars /\ WF_lastOp(ConstructDelivery)

(***************************************************************************)
(* SpecServe: a producer that answers incoming interests.  The root has    *)
(* registered its prefix and has a KeyChain; the application sets the      *)
(* freshness period of the packets it makes, registers onObjectNeeded      *)
(* callbacks that produce during the call or only answer True or False,    *)
(* and serializes objects itself; interests arrive with and without        *)
(* MustBeFresh, and time passes.                                           *)
(***************************************************************************)
MaxServeCallbacks == 2      \* how many onObjectNeeded callbacks the producer registers
ServeNames == {<<0>>, <<0, 0>>}
ServeFreshnessPeriod == 1

\* The producer starts: root.setKeyChain(keyChain) and, when its packets are to
\* have a freshness period, root.setNewDataMetaInfo(metaInfo).
ServeStart ==
    /\ keyChain[Root] = NoKeyChain
    /\ \E metaInfo \in {NoMetaInfo, ServeFreshnessPeriod} :
          CommitOp(IF metaInfo = NoMetaInfo THEN SetKeyChain(World, Root, 1)
                   ELSE SetNewDataMetaInfo(SetKeyChain(World, Root, 1), Root, metaInfo),
                   [op |-> "start", node |-> Root])

\* node.addOnObjectNeeded(f), where f produces during the callback, or returns
\* True or False only.
ServeAddOnObjectNeeded ==
    /\ keyChain[Root] # NoKeyChain
    /\ lastCallbackId < MaxServeCallbacks
    /\ \E self \in nodes \cap {Root, <<0>>}, produces \in BOOLEAN, f \in {"producer", "app"} :
          CommitOp(AddOnObjectNeeded(World, self,
                                     IF f = "producer" THEN AppProducer
                                     ELSE AppFunction(NoCallback, FALSE, produces)),
                   [op |-> "add", node |-> self])

\* root[name].serializeObject(obj)
ServeSerializeObject ==
    /\ keyChain[Root] # NoKeyChain
    /\ \E n \in ServeNames :
          CommitOp(SerializeObject(GetChild(World, Root, n), n, 1, TRUE),
                   [op |-> "serializeObject", node |-> n])

\* The face delivers an incoming interest under the registered prefix.
ServeOnInterest ==
    /\ keyChain[Root] # NoKeyChain
    /\ table.received < MaxPending
    /\ \E n \in ServeNames, mustBeFresh \in BOOLEAN, lifetime \in Lifetimes :
          LET w == [World EXCEPT !.table.received = @ + 1]
          IN CommitOp(OnInterest(w, Root,
                                 Interest(n, mustBeFresh, lifetime, w.table.received),
                                 w.table.received),
                      [op |-> "onInterest", node |-> n, mustBeFresh |-> mustBeFresh,
                       nonce |-> w.table.received])

\* Time passes.
ServeTick ==
    /\ now < MaxTime
    /\ CommitOp([World EXCEPT !.now = @ + 1], [op |-> "tick", node |-> Root])

InitServe ==
    /\ InitTree({Root}, NoHandler)
    /\ table = [exists |-> TRUE, entries |-> <<>>, received |-> 0]
    /\ face = [exists |-> TRUE, interests |-> EmptyBag, signature |-> "Sha256WithRsa"]

NextServe ==
    \/ ServeStart
    \/ ServeAddOnObjectNeeded
    \/ ServeSerializeObject
    \/ ServeOnInterest
    \/ ServeTick

SpecServe == InitServe /\ [][NextServe]_vars

(***************************************************************************)
(* SpecLatest: the producer of test_generalized_object_stream_producer.    *)
(* The root is the stream node.  main() makes the Namespace with a         *)
(* KeyChain and constructs a GeneralizedObjectStreamHandler; the           *)
(* application then registers the prefix and publishes the objects of the  *)
(* sequence numbers with what it has; interests for _latest and for the    *)
(* sequence numbers arrive, and time passes.                               *)
(***************************************************************************)
MaxSequenceNumber == 1      \* the sequence numbers the producer publishes are 0..MaxSequenceNumber
LatestPacketFreshnessPeriod == 1000
LatestNode == <<NAME_COMPONENT_LATEST>>
SequenceNodes == {<<k>> : k \in 0..MaxSequenceNumber}

\* GeneralizedObjectStreamHandler.__init__: Handler.__init__, the assignments,
\* and self._generalizedObjectHandler = GeneralizedObjectHandler(), whose
\* exception leaves no handler.
NewGeneralizedObjectStreamHandler(w) ==
    Only({IF w1.exception THEN Raise(w) ELSE w1 : w1 \in {NewGeneralizedObjectHandler(w)}})

\* main() up to stream.setHandler(handler): stream = Namespace(prefix, keyChain);
\* handler = GeneralizedObjectStreamHandler().
StartProducer(w) == NewGeneralizedObjectStreamHandler(SetKeyChain(w, Root, 1))

LatestStart ==
    /\ ~producer.started
    /\ CommitOp(StartProducer([World EXCEPT !.producer.started = TRUE]),
                [op |-> "startProducer", node |-> Root])

\* stream.setFace(face, onRegisterFailed): the root registers its prefix and
\* gets its pending incoming interest table.
LatestSetFace ==
    /\ producer.started
    /\ ~table.exists
    /\ CommitOp([World EXCEPT !.table.exists = TRUE], [op |-> "setFace", node |-> Root])

\* The application publishes the next sequence number: stream[k].serializeObject(obj).
LatestSerializeObject ==
    /\ producer.started
    /\ \E k \in 0..MaxSequenceNumber :
          /\ \A j \in 0..MaxSequenceNumber : (<<j>> \in nodes /\ object[<<j>>] # NoObject) <=> j < k
          /\ CommitOp(SerializeObject(GetChild(World, Root, <<k>>), <<k>>, 1, TRUE),
                      [op |-> "serializeObject", node |-> <<k>>])

\* The face delivers an incoming interest for _latest or for a sequence number.
LatestOnInterest ==
    /\ table.exists
    /\ table.received < MaxPending
    /\ \E n \in {LatestNode} \cup SequenceNodes, mustBeFresh \in BOOLEAN, lifetime \in Lifetimes :
          LET w == [World EXCEPT !.table.received = @ + 1]
          IN CommitOp(OnInterest(w, Root,
                                 Interest(n, mustBeFresh, lifetime, w.table.received),
                                 w.table.received),
                      [op |-> "onInterest", node |-> n, mustBeFresh |-> mustBeFresh,
                       nonce |-> w.table.received])

\* Time passes.
LatestTick ==
    /\ now < MaxTime
    /\ CommitOp([World EXCEPT !.now = @ + 1], [op |-> "tick", node |-> Root])

InitLatest ==
    /\ InitTree({Root}, NoHandler)
    /\ table = [exists |-> FALSE, entries |-> <<>>, received |-> 0]
    /\ face = [exists |-> TRUE, interests |-> EmptyBag, signature |-> "Sha256WithRsa"]

NextLatest ==
    \/ LatestStart
    \/ LatestSetFace
    \/ LatestSerializeObject
    \/ LatestOnInterest
    \/ LatestTick

SpecLatest == InitLatest /\ [][NextLatest]_vars

(***************************************************************************)
(* SpecRefresh: a consumer that asks again.  The packets of the producer   *)
(* have a freshness period or none; the application calls objectNeeded     *)
(* with and without mustBeFresh, also for a node that has its object; time *)
(* passes, and the face answers every interest with Data, a timeout or a   *)
(* network nack.                                                           *)
(***************************************************************************)
RefreshNames == {<<0>>}
FreshnessPeriods == {NoTime, 1}

\* node.objectNeeded(mustBeFresh), while no interest is waiting for its answer.
RefreshObjectNeeded ==
    /\ face.interests = EmptyBag
    /\ \E n \in nodes, mustBeFresh \in BOOLEAN :
          CommitOp(ObjectNeeded(World, n, mustBeFresh),
                   [op |-> "objectNeeded", node |-> n, mustBeFresh |-> mustBeFresh])

\* The face delivers the Data that answers the interest.
RefreshOnData ==
    \E pending \in BagToSet(face.interests), freshnessPeriod \in FreshnessPeriods :
        CommitOp(Respond(World, pending,
                         Data(pending.name, 1, freshnessPeriod, NoSegment, "Sha256WithRsa")),
                 [op |-> "onData", node |-> pending.name, pending |-> pending])

\* The interest has waited for its lifetime: the face removes it and calls the
\* onTimeout given to expressInterest.
RefreshOnTimeout ==
    \E pending \in BagToSet(face.interests) :
        CommitOp(ReExpressOnTimeout([World EXCEPT !.face.interests =
                                                     @ (-) SetToBag({pending})],
                                    pending),
                 [op |-> "onTimeout", node |-> pending.name, pending |-> pending])

\* A network nack arrives for the interest.
RefreshOnNetworkNack ==
    \E pending \in BagToSet(face.interests), nack \in NetworkNacks :
        /\ pending.onNetworkNack
        /\ CommitOp(OnNetworkNack([World EXCEPT !.face.interests =
                                                    @ (-) SetToBag({pending})],
                                  pending.name, nack),
                    [op |-> "onNetworkNack", node |-> pending.name, pending |-> pending,
                     nack |-> nack])

\* Time passes.
RefreshTick ==
    /\ now < MaxTime
    /\ CommitOp([World EXCEPT !.now = @ + 1], [op |-> "tick", node |-> Root])

InitRefresh ==
    /\ InitTree({Root} \cup RefreshNames, NoHandler)
    /\ table = [exists |-> FALSE, entries |-> <<>>, received |-> 0]
    /\ face = [exists |-> TRUE, interests |-> EmptyBag, signature |-> "Sha256WithRsa"]

NextRefresh ==
    \/ RefreshObjectNeeded
    \/ RefreshOnData
    \/ RefreshOnTimeout
    \/ RefreshOnNetworkNack
    \/ RefreshTick

\* The face reports the timeout of an interest that nothing answers.
SpecRefresh == InitRefresh /\ [][NextRefresh]_vars /\ WF_vars(RefreshOnTimeout)

(***************************************************************************)
(* C1.  The arguments passed to every onSegment callback are segment 0,     *)
(* segment 1, ... in numeric order with no segment twice and none skipped,  *)
(* up to the first segment that is not ready yet, and then, when segment    *)
(* MaxSegment has been passed, one None (NoSegment): whatever the order in  *)
(* which the segments became OBJECT_READY and however often OBJECT_READY    *)
(* was fired again for a segment that was ready.                           *)
(***************************************************************************)
ExpectedSegments == [i \in 1..(MaxSegment + 2) |-> IF i <= MaxSegment + 1 THEN i - 1 ELSE NoSegment]

SegmentReady(k) ==
    /\ Append(StreamNode, k) \in nodes
    /\ object[Append(StreamNode, k)] # NoObject

\* How many of the segments 0, 1, ... are ready without a gap.
ContiguousReady ==
    CHOOSE c \in 0..(MaxSegment + 1) :
        /\ \A k \in 0..(c - 1) : SegmentReady(k)
        /\ c <= MaxSegment => ~SegmentReady(c)

C1_SegmentsInOrder ==
    \A id \in DOMAIN reported :
        reported[id] = SubSeq(ExpectedSegments, 1,
                              IF ContiguousReady = MaxSegment + 1
                              THEN MaxSegment + 2 ELSE ContiguousReady)

\* The stream is complete, and the last operation passed segment 0 and the
\* final segment to a callback: segment 0 arrived after the others.
C1_Witness ==
    \E id \in DOMAIN reported :
        /\ reported[id] = ExpectedSegments
        /\ \E i, j \in 1..Len(log) :
              /\ i < j
              /\ log[i].ev = "segment" /\ log[i].id = id /\ log[i].val = 0
              /\ log[j].ev = "segment" /\ log[j].id = id /\ log[j].val = MaxSegment

(***************************************************************************)
(* C2.  Once a Data packet is attached to a node, no setData call, network  *)
(* response or serializeObject call replaces it: in every step, a node     *)
(* that has a Data packet keeps that very packet, and a setData call on it  *)
(* returns False, calls no callback and changes nothing in the tree.        *)
(***************************************************************************)
TreeUnchanged ==
    /\ nodes' = nodes
    /\ state' = state
    /\ validateState' = validateState
    /\ data' = data
    /\ object' = object
    /\ freshnessExpiry' = freshnessExpiry
    /\ signingError' = signingError

C2_DataNeverReplaced ==
    [][\A n \in nodes :
          data[n] # NoData =>
             /\ n \in nodes'
             /\ data'[n] = data[n]
             /\ (lastOp'.op = "setData" /\ lastOp'.node = n) =>
                   (~lastOp'.returns /\ TreeUnchanged /\ log' = <<>>)]_vars

\* A node whose object serializeObject has set again after the packet was
\* attached, and on which setData has then returned False.
C2_Witness ==
    \E n \in nodes :
        /\ data[n] # NoData
        /\ object[n] # NoObject
        /\ object[n] # data[n].content
        /\ lastOp.op = "setData"
        /\ lastOp.node = n
        /\ ~lastOp.returns

(***************************************************************************)
(* C3, as stated: when setData attaches a Data packet to a node that had   *)
(* none, the state of the node is DATA_RECEIVED afterwards.                 *)
(***************************************************************************)
C3_SetDataSetsDataReceived ==
    (lastOp.op = "setData" /\ lastOp.returns) => state[lastOp.node] = DATA_RECEIVED

(***************************************************************************)
(* C3, amended.  When setData attaches a Data packet to a node that had    *)
(* none, it leaves the state and the validate state of every node as they   *)
(* were and calls no onStateChanged or onValidateStateChanged callback.     *)
(* DATA_RECEIVED is set by _onData, after setData has attached the packet   *)
(* of a network response, and on the node that expressed the interest.      *)
(***************************************************************************)
C3_SetDataKeepsState ==
    [][/\ (lastOp'.op = "setData" /\ lastOp'.returns) =>
             /\ data[lastOp'.node] = NoData
             /\ data'[lastOp'.node] # NoData
             /\ state' = state
             /\ validateState' = validateState
             /\ \A i \in 1..Len(log') : log'[i].ev \notin {"state", "validate"}
       /\ (lastOp'.op = "onData" /\ lastOp'.returns) =>
             /\ data'[lastOp'.node] # NoData
             /\ \E i \in 1..Len(log') :
                   /\ log'[i].ev = "state"
                   /\ log'[i].val = DATA_RECEIVED
                   /\ log'[i].node = lastOp'.at]_vars

\* setData has attached a packet to a node that is still in the state NAME_EXISTS.
C3_Witness ==
    /\ lastOp.op = "setData"
    /\ lastOp.returns
    /\ data[lastOp.node] # NoData
    /\ state[lastOp.node] = NAME_EXISTS

(***************************************************************************)
(* C4.  A Data response for a node that already has a Data packet has no   *)
(* effect: no callback is called (no state change, no validate-state        *)
(* change), nothing is deserialized, and the nodes with their data, object, *)
(* state and validate state are as before.                                   *)
(***************************************************************************)
C4_SecondResponseIgnored ==
    [][(lastOp'.op = "onData" /\ ~lastOp'.returns) => (TreeUnchanged /\ log' = <<>>)]_vars

\* A response for a node whose packet came with an earlier response.
C4_Witness ==
    /\ lastOp.op = "onData"
    /\ ~lastOp.returns
    /\ validateState[lastOp.node] = VALIDATING
    /\ data[lastOp.node] # NoData

(***************************************************************************)
(* C5.  Whenever a step attaches a Data packet to a node of a tree whose    *)
(* root has a pending incoming interest table, every entry of the table     *)
(* that has not timed out and matches the packet is sent the packet, and    *)
(* every send comes before any onStateChanged callback is called with       *)
(* DATA_RECEIVED or OBJECT_READY.                                             *)
(***************************************************************************)
Attaches(n) ==
    /\ n \in nodes => data[n] = NoData
    /\ n \in nodes'
    /\ data'[n] # NoData

C5_PendingSatisfiedFirst ==
    [][\A n \in AppNames \cup {Root} :
          (table.exists /\ Attaches(n)) =>
             /\ \A e \in 1..Len(table.entries) :
                   (~IsTimedOut(table.entries[e], now) /\
                    MatchesName(table.entries[e].interest, n)) =>
                      \E i \in 1..Len(log') :
                         /\ log'[i].ev = "send"
                         /\ log'[i].id = table.entries[e].interest.nonce
                         /\ log'[i].node = n
                         /\ log'[i].val = data'[n].content
             /\ \A i, j \in 1..Len(log') :
                   (/\ log'[i].ev = "send"
                    /\ log'[j].ev = "state"
                    /\ log'[j].val \in {DATA_RECEIVED, OBJECT_READY}) => i < j]_vars

\* A network response has answered two waiting interests, and DATA_RECEIVED has
\* been announced after them.
C5_Witness ==
    /\ lastOp.op = "onData"
    /\ \E i, j, k \in 1..Len(log) :
          /\ i < j
          /\ j < k
          /\ log[i].ev = "send"
          /\ log[j].ev = "send"
          /\ log[k].ev = "state"
          /\ log[k].val = DATA_RECEIVED

(***************************************************************************)
(* C6.  getChild is idempotent.  A call node.getChild(D) leaves D in the    *)
(* tree; it creates only nodes on the way from the node to D and changes no *)
(* node that existed; when D existed it creates nothing, calls nothing and  *)
(* changes nothing; when it creates D there is one state change, of D to    *)
(* NAME_EXISTS, every callback call is for D with NAME_EXISTS, no callback   *)
(* is called twice, and the intermediate nodes created announce nothing.     *)
(***************************************************************************)
C6_GetChildIdempotent ==
    [][lastOp'.op = "getChild" =>
          LET self == lastOp'.at
              descendantName == lastOp'.node
              created == nodes' \ nodes
              notified == SelectSeq(log', LAMBDA e : e.ev \in {"setState", "state", "validate"})
          IN /\ descendantName \in nodes'
             /\ nodes \subseteq nodes'
             /\ \A m \in created :
                   /\ IsPrefixOf(self, m) /\ IsPrefixOf(m, descendantName) /\ m # self
                   /\ state'[m] = NAME_EXISTS
                   /\ data'[m] = NoData
                   /\ object'[m] = NoObject
             /\ \A m \in nodes :
                   /\ state'[m] = state[m]
                   /\ validateState'[m] = validateState[m]
                   /\ data'[m] = data[m]
                   /\ object'[m] = object[m]
             /\ descendantName \in nodes => (TreeUnchanged /\ log' = <<>>)
             /\ descendantName \notin nodes =>
                   /\ Len(SelectSeq(log', LAMBDA e : e.ev = "setState")) = 1
                   /\ \A i \in 1..Len(notified) :
                         /\ notified[i].node = descendantName
                         /\ notified[i].val = NAME_EXISTS
                         /\ notified[i].ev # "validate"
                   /\ \A i, j \in 1..Len(notified) :
                         (i # j /\ notified[i].ev = "state") => notified[i].id # notified[j].id
                   /\ \A a \in nodes :
                         IsPrefixOf(a, descendantName) =>
                            \A id \in Range(onStateChangedCallbacks[a]) \cap
                                      Range(onStateChangedCallbacks'[a]) :
                               \E i \in 1..Len(notified) :
                                  notified[i].ev = "state" /\ notified[i].id = id]_vars

\* root.getChild(<<0, 0>>) has created the child and the grandchild, and a callback
\* of the root has been called for the grandchild.
C6_Witness ==
    /\ lastOp.op = "getChild"
    /\ lastOp.at = Root
    /\ lastOp.node = <<0, 0>>
    /\ lastOp.created = {<<0>>, <<0, 0>>}
    /\ \E i \in 1..Len(log) :
          log[i].ev = "state" /\ log[i].at = Root /\ log[i].node = <<0, 0>>

(***************************************************************************)
(* C7.  Every state change and every validate-state change of a node is    *)
(* delivered to the callbacks of that node and of its ancestors only, with  *)
(* the changed node and the new value, the node's own callbacks first and   *)
(* then each ancestor's toward the root, no callback twice, and every       *)
(* callback of these nodes that is registered before and after is called.   *)
(***************************************************************************)
C7_NodeThenAncestors ==
    [][\A c \in 1..Len(log') :
          log'[c].ev \in {"setState", "setValidateState"} =>
             LET isState == log'[c].ev = "setState"
                 before == IF isState THEN onStateChangedCallbacks
                           ELSE onValidateStateChangedCallbacks
                 after == IF isState THEN onStateChangedCallbacks'
                          ELSE onValidateStateChangedCallbacks'
                 changed == log'[c].node
                 calls == SelectSeq(log', LAMBDA e :
                             /\ e.ev = (IF isState THEN "state" ELSE "validate")
                             /\ e.fo = log'[c].fo)
             IN /\ \A k \in 1..Len(calls) :
                      /\ calls[k].node = changed
                      /\ calls[k].val = log'[c].val
                      /\ IsPrefixOf(calls[k].at, changed)
                      /\ calls[k].at \in nodes
                      /\ calls[k].id \in Range(before[calls[k].at])
                /\ \A k, l \in 1..Len(calls) :
                      k < l => /\ Len(calls[k].at) >= Len(calls[l].at)
                               /\ calls[k].id # calls[l].id
                /\ \A a \in nodes :
                      IsPrefixOf(a, changed) =>
                         \A id \in Range(before[a]) \cap Range(after[a]) :
                            \E k \in 1..Len(calls) : calls[k].id = id /\ calls[k].at = a]_vars

\* A validate-state change of a grandchild has been delivered to a callback of
\* the grandchild and then to a callback of the root.
C7_Witness ==
    \E i, j \in 1..Len(log) :
        /\ i < j
        /\ log[i].ev = "validate"
        /\ log[j].ev = "validate"
        /\ log[i].fo = log[j].fo
        /\ log[i].at = <<0, 0>>
        /\ log[j].at = Root
        /\ log[i].node = <<0, 0>>

RegisteredAt(c, a) ==
    SelectSeq(onStateChangedCallbacks[a], LAMBDA id :
                 ~\E i \in 1..(c - 1) :
                     log'[i].ev = "removeCallback" /\ log'[i].at = a /\ log'[i].id = id)

\* The IDs of the callbacks of node a called in the fan-out of log'[c], in order.
CalledAt(c, a) ==
    LET calls == SelectSeq(log', LAMBDA e :
                              e.ev = "state" /\ e.fo = log'[c].fo /\ e.at = a)
    IN [k \in 1..Len(calls) |-> calls[k].id]

Quiet(w) ==
    [w EXCEPT !.callback = [id \in DOMAIN @ |->
                               [@[id] EXCEPT !.raises = FALSE,
                                             !.produces = @ /\ ~w.callback[id].raises]]]

SameOutcome(a, b) ==
    /\ ~a.exception
    /\ [a EXCEPT !.callback = b.callback] = b

C10_ExceptionsCaught ==
    /\ exception = FALSE
    /\ \A n \in ListenerNames :
          SameOutcome(GetChild(World, Root, n), GetChild(Quiet(World), Root, n))
    /\ \A n \in nodes :
          SameOutcome(Request(World, n), Request(Quiet(World), n))
    /\ \A interest \in BagToSet(face.interests) :
          SameOutcome(Respond(World, interest, ResponseTo(interest)),
                      Respond(Quiet(World), interest, ResponseTo(interest)))

\* An onObjectNeeded callback that would produce has raised, a second one has
\* been asked after it, and the node has expressed its interest.
C10_Witness ==
    \E i, j \in 1..Len(log) :
        /\ i < j
        /\ log[i].ev = "needed"
        /\ callback[log[i].id].raises
        /\ callback[log[i].id].produces
        /\ log[j].ev = "needed"
        /\ log[j].id # log[i].id
        /\ state[log[i].node] = INTEREST_EXPRESSED

(***************************************************************************)
(* C11.  objectNeeded(mustBeFresh) on a node that has a Data packet         *)
(* attached, not past its freshness expiry when mustBeFresh is true, and an *)
(* object sets the state OBJECT_READY again for that node and for no other  *)
(* node, asks no onObjectNeeded callback and expresses no interest,         *)
(* whatever Data and objects the descendants of the node have.              *)
(***************************************************************************)
C11_ReadyNodeRefires ==
    [][(/\ lastOp'.op = "objectNeeded"
        /\ data[lastOp'.node] # NoData
        /\ object[lastOp'.node] # NoObject
        /\ lastOp'.mustBeFresh =>
               \/ freshnessExpiry[lastOp'.node] = NoTime
               \/ now < freshnessExpiry[lastOp'.node])
       => /\ \E i \in 1..Len(log') :
                /\ log'[i].ev = "setState"
                /\ log'[i].node = lastOp'.node
                /\ log'[i].val = OBJECT_READY
          /\ \A i \in 1..Len(log') :
                /\ log'[i].ev \notin {"needed", "express"}
                /\ log'[i].ev = "setState" => log'[i].node = lastOp'.node
          /\ face' = face
          /\ state'[lastOp'.node] = OBJECT_READY]_vars

(***************************************************************************)
(* C12.  When objectNeeded(mustBeFresh) finds no object that is ready, it   *)
(* calls every onObjectNeeded callback of the node and then of each         *)
(* ancestor up to the root, once each, in the order of registration, with   *)
(* the node as the needed node.  If one of them returns True the node       *)
(* becomes PRODUCING_OBJECT and no interest is expressed; otherwise one     *)
(* interest is expressed, for the name of the node with the given           *)
(* mustBeFresh, and the node becomes INTEREST_EXPRESSED.                    *)
(***************************************************************************)
\* The onObjectNeeded callbacks objectNeeded on node n has to ask, in order:
\* <<node, callback ID>>.
RECURSIVE CallbacksToAsk(_)
CallbacksToAsk(n) ==
    [i \in 1..Len(onObjectNeededCallbacks[n]) |-> <<n, onObjectNeededCallbacks[n][i]>>]
    \o (IF n = Root THEN <<>> ELSE CallbacksToAsk(Parent(n)))

\* No node under n (n included) that has Data matching an interest for n has an
\* object the search of objectNeeded would return.
NoReadyObject(n, mustBeFresh) ==
    LET bestMatch == FindBestMatchName(World, n, Interest(n, mustBeFresh, InterestLifetime, 0),
                                       now)
    IN bestMatch = NoNamespace \/ object[bestMatch] = NoObject

C12_AsksAllThenProducesOrExpresses ==
    [][(lastOp'.op = "objectNeeded" /\ NoReadyObject(lastOp'.node, lastOp'.mustBeFresh)) =>
          LET n == lastOp'.node
              asked == SelectSeq(log', LAMBDA e : e.ev = "needed")
              expressed == SelectSeq(log', LAMBDA e : e.ev = "express")
              toAsk == CallbacksToAsk(n)
              canProduce == \E i \in 1..Len(toAsk) :
                               /\ callback[toAsk[i][2]].produces
                               /\ ~callback[toAsk[i][2]].raises
          IN /\ Len(asked) = Len(toAsk)
             /\ \A i \in 1..Len(asked) :
                   /\ asked[i].at = toAsk[i][1]
                   /\ asked[i].id = toAsk[i][2]
                   /\ asked[i].node = n
             /\ canProduce =>
                   /\ state'[n] = PRODUCING_OBJECT
                   /\ expressed = <<>>
                   /\ face' = face
             /\ ~canProduce =>
                   /\ state'[n] = INTEREST_EXPRESSED
                   /\ Len(expressed) = 1
                   /\ expressed[1].node = n
                   /\ \E pending \in BagToSet(face'.interests) :
                         /\ face'.interests = face.interests (+) SetToBag({pending})
                         /\ pending.name = n
                         /\ pending.mustBeFresh = lastOp'.mustBeFresh
                         /\ pending.lifetime = InterestLifetime]_vars

\* objectNeeded on the child has asked a callback that returned True and after it
\* a callback of the root, and the child is PRODUCING_OBJECT.
C12_Witness ==
    /\ lastOp.op = "objectNeeded"
    /\ state[lastOp.node] = PRODUCING_OBJECT
    /\ \E i, j \in 1..Len(log) :
          /\ i < j
          /\ log[i].ev = "needed"
          /\ callback[log[i].id].produces
          /\ log[j].ev = "needed"
          /\ log[j].at = Root
          /\ log[i].at # Root

(***************************************************************************)
(* C13.  The interest that objectNeeded() expresses has the lifetime 4000   *)
(* and the maximum that is in effect for the node when objectNeeded is      *)
(* called: the setting of the node or of its nearest ancestor that has one, *)
(* and 16000 otherwise.  When the interest times out it is expressed again  *)
(* with twice the lifetime if that does not exceed the maximum, and nothing *)
(* else changes; if it does exceed the maximum the node becomes             *)
(* INTEREST_TIMEOUT, no interest is expressed again, and Data and objects   *)
(* stay as they were.  If neither Data nor a nack ever arrives, every       *)
(* interest that waits leads to INTEREST_TIMEOUT of its node with no        *)
(* interest of the node waiting, and no node becomes OBJECT_READY.          *)
(***************************************************************************)
EffectiveMaxInterestLifetime(n) ==
    LET chain == Ancestors(n)
        set == {i \in 1..Len(chain) : maxInterestLifetime[chain[i]] # NoTime}
    IN IF set = {} THEN DefaultMaxInterestLifetime
       ELSE maxInterestLifetime[chain[CHOOSE i \in set : \A j \in set : i <= j]]

Waits(n) == \E pending \in BagToSet(face.interests) : pending.name = n

C13_DoubledUntilMaximumThenTimeout ==
    /\ [][/\ (lastOp'.op = "objectNeeded" /\ face'.interests # face.interests) =>
               \E pending \in BagToSet(face'.interests) :
                   /\ face'.interests = face.interests (+) SetToBag({pending})
                   /\ pending.name = lastOp'.node
                   /\ pending.lifetime = InterestLifetime
                   /\ pending.maxInterestLifetime =
                          EffectiveMaxInterestLifetime(lastOp'.node)
          /\ lastOp'.op = "onTimeout" =>
               LET pending == lastOp'.pending
                   waiting == face.interests (-) SetToBag({pending})
               IN /\ data' = data
                  /\ object' = object
                  /\ IF pending.lifetime * 2 <= pending.maxInterestLifetime
                     THEN /\ state' = state
                          /\ log' = <<>>
                          /\ \E again \in BagToSet(face'.interests) :
                                /\ face'.interests = waiting (+) SetToBag({again})
                                /\ again.name = pending.name
                                /\ again.mustBeFresh = pending.mustBeFresh
                                /\ again.lifetime = pending.lifetime * 2
                                /\ again.maxInterestLifetime = pending.maxInterestLifetime
                     ELSE /\ state'[pending.name] = INTEREST_TIMEOUT
                          /\ face'.interests = waiting
                          /\ \A again \in BagToSet(face'.interests) :
                                again.name # pending.name]_vars
    /\ ([](lastOp.op \notin {"onData", "onNetworkNack"})) =>
          \A n \in {Root} \cup RetryNames :
              /\ Waits(n) ~> (state[n] = INTEREST_TIMEOUT /\ ~Waits(n))
              /\ [](state[n] # OBJECT_READY)

\* The interest of the child, whose maximum of 8000 is the setting of the root,
\* has timed out with the lifetime 8000, and the child is INTEREST_TIMEOUT.
C13_Witness ==
    /\ lastOp.op = "onTimeout"
    /\ lastOp.node = <<0>>
    /\ maxInterestLifetime[<<0>>] = NoTime
    /\ maxInterestLifetime[Root] = 8000
    /\ lastOp.pending.lifetime = 8000
    /\ state[<<0>>] = INTEREST_TIMEOUT
    /\ face.interests = EmptyBag

(***************************************************************************)
(* C14.  A network nack for the interest of a node sets the node to        *)
(* INTEREST_NETWORK_NACK and stores the nack in the node.  The step that    *)
(* makes a node INTEREST_NETWORK_NACK or INTEREST_TIMEOUT changes nothing   *)
(* else of the tree: the nodes, the Data, the objects, the validate states, *)
(* the states of the other nodes and the callbacks stay as they were, and   *)
(* only the answered interest leaves the face.  objectNeeded() on a node    *)
(* that is INTEREST_TIMEOUT or INTEREST_NETWORK_NACK, when the tree holds   *)
(* no ready object for it, expresses one new interest for the node with the *)
(* lifetime 4000 and sets INTEREST_EXPRESSED; Data that answers an interest *)
(* makes the node OBJECT_READY with the content as its object, also after   *)
(* the node was refused before.                                             *)
(***************************************************************************)
RestOfTreeUnchanged(n) ==
    /\ nodes' = nodes
    /\ data' = data
    /\ object' = object
    /\ validateState' = validateState
    /\ freshnessExpiry' = freshnessExpiry
    /\ onStateChangedCallbacks' = onStateChangedCallbacks
    /\ onValidateStateChangedCallbacks' = onValidateStateChangedCallbacks
    /\ onObjectNeededCallbacks' = onObjectNeededCallbacks
    /\ maxInterestLifetime' = maxInterestLifetime
    /\ \A other \in nodes \ {n} :
          /\ state'[other] = state[other]
          /\ networkNack'[other] = networkNack[other]

C14_RefusedNodeCanBeAskedAgain ==
    [][/\ lastOp'.op = "onNetworkNack" =>
            /\ state'[lastOp'.node] = INTEREST_NETWORK_NACK
            /\ networkNack'[lastOp'.node] = lastOp'.nack
            /\ face'.interests = face.interests (-) SetToBag({lastOp'.pending})
            /\ RestOfTreeUnchanged(lastOp'.node)
       /\ (lastOp'.op = "onTimeout" /\ state'[lastOp'.node] = INTEREST_TIMEOUT) =>
            /\ face'.interests = face.interests (-) SetToBag({lastOp'.pending})
            /\ networkNack' = networkNack
            /\ RestOfTreeUnchanged(lastOp'.node)
       /\ (/\ lastOp'.op = "objectNeeded"
           /\ state[lastOp'.node] \in {INTEREST_TIMEOUT, INTEREST_NETWORK_NACK}
           /\ NoReadyObject(lastOp'.node, lastOp'.mustBeFresh)) =>
            /\ state'[lastOp'.node] = INTEREST_EXPRESSED
            /\ \E pending \in BagToSet(face'.interests) :
                  /\ face'.interests = face.interests (+) SetToBag({pending})
                  /\ pending.name = lastOp'.node
                  /\ pending.lifetime = InterestLifetime
                  /\ pending.onNetworkNack
       /\ lastOp'.op = "onData" =>
            /\ state'[lastOp'.node] = OBJECT_READY
            /\ data'[lastOp'.node] # NoData
            /\ object'[lastOp'.node] = data'[lastOp'.node].content]_vars

\* The child that was refused with a nack, and has an onStateChanged callback,
\* was asked again and is OBJECT_READY with the Data that arrived.
C14_Witness ==
    /\ lastOp.op = "onData"
    /\ lastOp.node = <<0>>
    /\ networkNack[<<0>>] = "Congestion"
    /\ onStateChangedCallbacks[<<0>>] # <<>>
    /\ state[<<0>>] = OBJECT_READY
    /\ \E i \in 1..Len(log) : log[i].ev = "state" /\ log[i].val = OBJECT_READY

(***************************************************************************)
(* C15.  When the Data that answers the interest of a node has the name of  *)
(* the node, the node has no Data yet, and neither the node nor a parent    *)
(* has a decryptor (no handler claims a blob here), _onData makes three     *)
(* changes for the node, in this order: state DATA_RECEIVED, validate state *)
(* VALIDATING, state OBJECT_READY.  Every onStateChanged callback of the    *)
(* node and of its parents is called with DATA_RECEIVED and then with       *)
(* OBJECT_READY, every onValidateStateChanged callback with VALIDATING, and *)
(* no callback hears of a later change before an earlier one.  Afterwards   *)
(* the node has the Data, its object is the content of the Data and its     *)
(* state is OBJECT_READY.                                                   *)
(***************************************************************************)
ChangeRank(e) ==
    IF e.ev \in {"setState", "state"} /\ e.val = DATA_RECEIVED THEN 1
    ELSE IF e.ev \in {"setValidateState", "validate"} /\ e.val = VALIDATING THEN 2
    ELSE IF e.ev \in {"setState", "state"} /\ e.val = OBJECT_READY THEN 3
    ELSE 0

HeardBy(events, id) ==
    LET heard == SelectSeq(events, LAMBDA e : e.ev \in {"state", "validate"} /\ e.id = id)
    IN [i \in 1..Len(heard) |-> heard[i].val]

NoDecryptorFor(n) ==
    \A i \in 1..Len(Ancestors(n)) : decryptor[Ancestors(n)[i]] = NoDecryptor

C15_ReceivedValidatingReady ==
    [][(/\ lastOp'.op = "onData"
        /\ lastOp'.name = lastOp'.node
        /\ data[lastOp'.node] = NoData
        /\ NoDecryptorFor(lastOp'.node)) =>
          LET n == lastOp'.node
              changes == SelectSeq(log', LAMBDA e : e.ev \in {"setState", "setValidateState"})
          IN /\ [i \in 1..Len(changes) |-> ChangeRank(changes[i])] = <<1, 2, 3>>
             /\ \A i \in 1..Len(log') :
                   /\ log'[i].node = n
                   /\ ChangeRank(log'[i]) # 0
                   /\ \A j \in i..Len(log') : ChangeRank(log'[i]) <= ChangeRank(log'[j])
             /\ \A i \in 1..Len(Ancestors(n)) :
                   LET at == Ancestors(n)[i]
                   IN /\ \A k \in 1..Len(onStateChangedCallbacks[at]) :
                            HeardBy(log', onStateChangedCallbacks[at][k])
                                = <<DATA_RECEIVED, OBJECT_READY>>
                      /\ \A k \in 1..Len(onValidateStateChangedCallbacks[at]) :
                            HeardBy(log', onValidateStateChangedCallbacks[at][k])
                                = <<VALIDATING>>
             /\ data'[n] # NoData
             /\ data'[n].name = n
             /\ data'[n].content = lastOp'.content
             /\ object'[n] = lastOp'.content
             /\ state'[n] = OBJECT_READY
             /\ validateState'[n] = VALIDATING]_vars

\* Data with the name of the child has answered the interest of the child, and
\* an onStateChanged callback of the root and an onValidateStateChanged callback
\* of the child have heard of it.
C15_Witness ==
    /\ lastOp.op = "onData"
    /\ lastOp.node = <<0>>
    /\ lastOp.name = <<0>>
    /\ NoDecryptorFor(<<0>>)
    /\ state[<<0>>] = OBJECT_READY
    /\ onStateChangedCallbacks[Root] # <<>>
    /\ onValidateStateChangedCallbacks[<<0>>] # <<>>
    /\ \E i, j, k \in 1..Len(log) :
          /\ i < j /\ j < k
          /\ log[i].ev = "state" /\ log[i].at = Root /\ log[i].val = DATA_RECEIVED
          /\ log[j].ev = "validate" /\ log[j].at = <<0>> /\ log[j].val = VALIDATING
          /\ log[k].ev = "state" /\ log[k].at = Root /\ log[k].val = OBJECT_READY

(***************************************************************************)
(* C16.  When Data arrives for a node that has no Data yet and the node or  *)
(* a parent has a decryptor (the nearest one counts), the node is set to    *)
(* VALIDATING and then to DECRYPTING before anything else happens to it.    *)
(* If the content is not the encoding of an EncryptedContent the decryptor  *)
(* is not called, the node becomes DECRYPTION_ERROR, an error text is       *)
(* stored and the object stays unset.  Otherwise decrypt is called; when    *)
(* the decryptor reports an error, inside decrypt or later, the node        *)
(* becomes DECRYPTION_ERROR with an error text and without an object; when  *)
(* it succeeds the object is the plaintext, not the content of the packet,  *)
(* and the node becomes OBJECT_READY.  A node with a decryption error text  *)
(* has no object and is not OBJECT_READY.                                   *)
(***************************************************************************)
EffectiveDecryptor(n) ==
    LET chain == Ancestors(n)
        set == {i \in 1..Len(chain) : decryptor[chain[i]] # NoDecryptor}
    IN IF set = {} THEN NoDecryptor
       ELSE decryptor[chain[CHOOSE i \in set : \A j \in set : i <= j]]

ChangesOf(events, n) ==
    LET changes == SelectSeq(events, LAMBDA e : /\ e.ev \in {"setState", "setValidateState"}
                                                /\ e.node = n)
    IN [i \in 1..Len(changes) |-> changes[i].val]

C16_DecryptsBeforeDeserializing ==
    /\ [][/\ (/\ lastOp'.op = "onData"
              /\ data[lastOp'.name] = NoData
              /\ EffectiveDecryptor(lastOp'.name) # NoDecryptor) =>
               LET m == lastOp'.name
                   d == EffectiveDecryptor(m)
                   content == lastOp'.content
                   first == (IF lastOp'.node = m THEN <<DATA_RECEIVED>> ELSE <<>>)
                                \o <<VALIDATING, DECRYPTING>>
               IN IF ~IsEncryptedContent(content) \/ (~d.later /\ ~d.succeeds)
                  THEN /\ ChangesOf(log', m) = first \o <<DECRYPTION_ERROR>>
                       /\ state'[m] = DECRYPTION_ERROR
                       /\ decryptionError'[m]
                       /\ object'[m] = NoObject
                       /\ decrypting' = decrypting
                  ELSE IF d.later
                  THEN /\ ChangesOf(log', m) = first
                       /\ state'[m] = DECRYPTING
                       /\ object'[m] = NoObject
                       /\ decrypting' = decrypting \cup {[node |-> m, content |-> content,
                                                          succeeds |-> d.succeeds]}
                  ELSE /\ ChangesOf(log', m) = first \o <<OBJECT_READY>>
                       /\ state'[m] = OBJECT_READY
                       /\ object'[m] = PlaintextOf(content)
                       /\ object'[m] # data'[m].content
                       /\ ~decryptionError'[m]
                       /\ decrypting' = decrypting
          /\ lastOp'.op = "decryptorAnswers" =>
               LET m == lastOp'.node
               IN IF lastOp'.succeeds
                  THEN /\ ChangesOf(log', m) = <<OBJECT_READY>>
                       /\ state'[m] = OBJECT_READY
                       /\ object'[m] = PlaintextOf(lastOp'.content)
                       /\ object'[m] # data'[m].content
                  ELSE /\ ChangesOf(log', m) = <<DECRYPTION_ERROR>>
                       /\ state'[m] = DECRYPTION_ERROR
                       /\ decryptionError'[m]
                       /\ object'[m] = NoObject]_vars
    /\ [](\A n \in nodes : decryptionError[n] =>
                               object[n] = NoObject /\ state[n] # OBJECT_READY)

\* Encrypted Data for the child has answered the interest of the root; the
\* decryptor of the root has answered later, and the object of the child is the
\* plaintext.
C16_Witness ==
    /\ lastOp.op = "decryptorAnswers"
    /\ lastOp.node = <<0>>
    /\ lastOp.succeeds
    /\ decryptor[Root] # NoDecryptor
    /\ decryptor[<<0>>] = NoDecryptor
    /\ data[<<0>>] # NoData
    /\ data[<<0>>].content = EncryptedContentOf(1)
    /\ object[<<0>>] = 1
    /\ state[<<0>>] = OBJECT_READY

(***************************************************************************)
(* C17.  serializeObject(obj) sets the node to SIGNING first.  When the key *)
(* chain signs the packet, the node afterwards has the signed Data, whose   *)
(* content is obj, attached, its object is obj and its state is             *)
(* OBJECT_READY.  When the key chain raises, the node is SIGNING_ERROR with *)
(* an error text, Data and objects are as before, nothing is sent and no    *)
(* exception leaves the call.                                               *)
(***************************************************************************)
C17_SignsAttachesAndSetsObject ==
    [][lastOp'.op = "serializeObject" =>
          LET n == lastOp'.node
              changes == ChangesOf(log', n)
          IN /\ changes # <<>>
             /\ changes[1] = SIGNING
             /\ ~exception'
             /\ IF lastOp'.returns
                THEN /\ changes = <<SIGNING, OBJECT_READY>>
                     /\ state'[n] = OBJECT_READY
                     /\ object'[n] \in Contents
                     /\ data'[n] # NoData
                     /\ data'[n].content = object'[n]
                ELSE /\ changes = <<SIGNING, SIGNING_ERROR>>
                     /\ state'[n] = SIGNING_ERROR
                     /\ signingError'[n]
                     /\ data' = data
                     /\ object' = object
                     /\ table' = table
                     /\ \A i \in 1..Len(log') : log'[i].ev \notin {"send", "putData"}]_vars

(***************************************************************************)
(* C18.  After removeCallback(id) on a node, no callback that was           *)
(* registered on that node under id, with addOnStateChanged,                *)
(* addOnValidateStateChanged or addOnObjectNeeded, is called again; and     *)
(* removeCallback with an ID under which the node has no callback leaves    *)
(* the callbacks of all nodes as they were.                                 *)
(***************************************************************************)
C18_RemovedCallbackNeverInvoked ==
    /\ [](\A i \in 1..Len(log) :
             log[i].ev \in {"state", "validate", "needed"} =>
                 <<log[i].at, log[i].id>> \notin removed)
    /\ [][(/\ lastOp'.op = "removeCallback"
           /\ lastOp'.id \notin Range(onStateChangedCallbacks[lastOp'.node])
           /\ lastOp'.id \notin Range(onValidateStateChangedCallbacks[lastOp'.node])
           /\ lastOp'.id \notin Range(onObjectNeededCallbacks[lastOp'.node])) =>
              /\ onStateChangedCallbacks' = onStateChangedCallbacks
              /\ onValidateStateChangedCallbacks' = onValidateStateChangedCallbacks
              /\ onObjectNeededCallbacks' = onObjectNeededCallbacks
              /\ callback' = callback
              /\ state' = state]_vars

(***************************************************************************)
(* C19.  Once the SegmentStreamHandler has reported the final segment and   *)
(* the end of the stream, it has no onSegment callbacks, and neither its    *)
(* onStateChanged nor its onObjectNeeded registration is left on its node;  *)
(* no operation after that calls a method of the handler or an onSegment    *)
(* callback.                                                                *)
(***************************************************************************)
StreamFinished ==
    /\ Attached
    /\ handler.finalSegmentNumber # NoSegment
    /\ handler.maxReportedSegmentNumber = handler.finalSegmentNumber

CallsHandler(e) ==
    \/ e.ev = "segment"
    \/ e.ev = "state" /\ e.id = handler.onStateChangedId
    \/ e.ev = "needed" /\ e.id = handler.onObjectNeededId

C19_FinishedHandlerHoldsNothing ==
    /\ [](StreamFinished =>
             /\ handler.onSegmentCallbacks = <<>>
             /\ handler.onStateChangedId
                    \notin Range(onStateChangedCallbacks[handler.namespace])
             /\ handler.onObjectNeededId
                    \notin Range(onObjectNeededCallbacks[handler.namespace]))
    /\ [][StreamFinished => \A i \in 1..Len(log') : ~CallsHandler(log'[i])]_vars

(***************************************************************************)
(* C20.  add appends the interest to the table; an interest added with a    *)
(* negative lifetime has no expiry time, any other expires at the time of   *)
(* add plus its lifetime.  satisfyInterests(data) sends the Data once to    *)
(* each entry that has not expired and whose interest matches the name of   *)
(* the Data, sends nothing to any other entry, and leaves in the table the  *)
(* entries that have not expired and do not match, in the order they had.   *)
(* An entry without expiry time is never dropped unsent.  No interest comes *)
(* back into the table, so none is sent Data twice, and none is sent Data   *)
(* by a call later than the first one it matches.                           *)
(***************************************************************************)
Expired(entry) == entry.interest.lifetime >= 0 /\ now >= entry.timeoutTime

SentTo(events, nonce) ==
    Len(SelectSeq(events, LAMBDA e : e.ev = "send" /\ e.id = nonce))

C20_SentOnceUnlessExpired ==
    /\ [][/\ lastOp'.op = "add" =>
               /\ Len(table'.entries) = Len(table.entries) + 1
               /\ SubSeq(table'.entries, 1, Len(table.entries)) = table.entries
               /\ LET entry == table'.entries[Len(table'.entries)]
                  IN /\ entry.interest.name = lastOp'.node
                     /\ entry.interest.lifetime = lastOp'.lifetime
                     /\ entry.interest.nonce \notin
                            {table.entries[i].interest.nonce : i \in 1..Len(table.entries)}
                     /\ entry.interest.nonce > table.received
                     /\ entry.timeoutTime = (IF lastOp'.lifetime < 0 THEN NoTime
                                             ELSE now + lastOp'.lifetime)
               /\ log' = <<>>
          /\ lastOp'.op = "satisfyInterests" =>
               /\ \A i \in 1..Len(table.entries) :
                     LET entry == table.entries[i]
                     IN SentTo(log', entry.interest.nonce) =
                            (IF ~Expired(entry) /\ IsPrefixOf(entry.interest.name, lastOp'.node)
                             THEN 1 ELSE 0)
               /\ \A i \in 1..Len(log') :
                     /\ log'[i].ev = "send"
                     /\ log'[i].node = lastOp'.node
                     /\ \E k \in 1..Len(table.entries) :
                           table.entries[k].interest.nonce = log'[i].id
               /\ table'.entries =
                     SelectSeq(table.entries,
                               LAMBDA entry : /\ ~Expired(entry)
                                              /\ ~IsPrefixOf(entry.interest.name,
                                                             lastOp'.node))
          /\ lastOp'.op = "tick" => table' = table /\ log' = <<>>]_vars
    /\ [](\A i \in 1..Len(table.entries) :
             /\ table.entries[i].interest.nonce <= table.received
             /\ table.entries[i].interest.lifetime < 0 =>
                   table.entries[i].timeoutTime = NoTime)

\* satisfyInterests for the name <<0>> at time 1 has met three entries: the
\* first, for <<0>> with lifetime 1, had expired and was dropped unsent; the
\* second, for the root without lifetime, was sent the Data; the third, for
\* <<1>>, stays.
C20_Witness ==
    /\ lastOp.op = "satisfyInterests"
    /\ lastOp.node = <<0>>
    /\ now = 1
    /\ table.received = 3
    /\ Len(table.entries) = 1
    /\ table.entries[1].interest.name = <<1>>
    /\ table.entries[1].interest.nonce = 3
    /\ Len(log) = 1
    /\ log[1].ev = "send"
    /\ log[1].id = 2

(***************************************************************************)
(* C21.  When Face.send raises for a matching entry, satisfyInterests ends  *)
(* without an exception, has called send once for every entry that has not  *)
(* expired and matches, the entries behind the failing one included, and    *)
(* has removed the entry whose send failed like the others: no later call   *)
(* finds it in the table.                                                   *)
(***************************************************************************)
SendFailed(events, nonce) ==
    \E i \in 1..Len(events) :
        events[i].ev = "send" /\ events[i].id = nonce /\ events[i].fo = 1

C21_FailedSendIsCaught ==
    [][lastOp'.op = "satisfyInterests" =>
          /\ ~exception'
          /\ \A i \in 1..Len(table.entries) :
                LET entry == table.entries[i]
                    due == ~Expired(entry) /\ IsPrefixOf(entry.interest.name, lastOp'.node)
                IN /\ SentTo(log', entry.interest.nonce) = (IF due THEN 1 ELSE 0)
                   /\ SendFailed(log', entry.interest.nonce) =
                          (due /\ FaceSendRaises(entry.face))
                   /\ due => \A k \in 1..Len(table'.entries) :
                                 table'.entries[k].interest.nonce # entry.interest.nonce]_vars

\* satisfyInterests met three matching entries: send raised for the last one,
\* which the loop meets first, and for the second; the first was sent the Data;
\* the table is empty.
C21_Witness ==
    /\ lastOp.op = "satisfyInterests"
    /\ table.received = 3
    /\ table.entries = <<>>
    /\ ~exception
    /\ Len(log) = 3
    /\ log[1].id = 3 /\ log[1].fo = 1
    /\ log[2].id = 2 /\ log[2].fo = 1
    /\ log[3].id = 1 /\ log[3].fo = 0

(***************************************************************************)
(* C27.  The effective face, key chain, decryptor, handler, new-data        *)
(* MetaInfo and maximum interest lifetime of a node are the values set on   *)
(* the nearest node of the path from the node to the root that has one,     *)
(* and None (16000 ms for the lifetime) when no node of the path has one.   *)
(* A setter changes the effective value of the node it is called on and of  *)
(* the descendants without a nearer setting, and of no other node.          *)
(***************************************************************************)
\* The nodes on the path from n to the root that hold a setting of the kind.
Holders(kind, n) ==
    {a \in nodes : IsPrefixOf(a, n) /\ OwnOf(World, kind)[a] # NoneOf(kind)}

Nearest(kind, n) ==
    CHOOSE a \in Holders(kind, n) : \A b \in Holders(kind, n) : Len(b) <= Len(a)

DefaultOf(kind) ==
    IF kind = "maxInterestLifetime" THEN DefaultMaxInterestLifetime ELSE NoneOf(kind)

\* n is s or a descendant of s with no setting of the kind nearer than s.
Inherits(kind, n, s) ==
    /\ IsPrefixOf(s, n)
    /\ \A a \in Holders(kind, n) : Len(a) <= Len(s)

C27_NearestSettingWins ==
    /\ \A kind \in Kinds, n \in nodes :
          GetterOf(World, kind, n) =
             (IF Holders(kind, n) = {} THEN DefaultOf(kind)
              ELSE OwnOf(World, kind)[Nearest(kind, n)])
    /\ [][LET after == [World EXCEPT !.ownFace = ownFace', !.keyChain = keyChain',
                                     !.newDataMetaInfo = newDataMetaInfo',
                                     !.decryptor = decryptor',
                                     !.ownHandler = ownHandler',
                                     !.maxInterestLifetime = maxInterestLifetime']
              set == {x \in Kinds \X nodes :
                         OwnOf(after, x[1])[x[2]] # OwnOf(World, x[1])[x[2]]}
          IN /\ Cardinality(set) <= 1
             /\ \A k \in Kinds, n \in nodes :
                   GetterOf(after, k, n) # GetterOf(World, k, n) =>
                       \E x \in set : x[1] = k /\ Inherits(k, n, x[2])
             /\ \A x \in set, n \in nodes :
                   Inherits(x[1], n, x[2]) =>
                       GetterOf(after, x[1], n) =
                          (IF OwnOf(after, x[1])[x[2]] # NoneOf(x[1])
                           THEN OwnOf(after, x[1])[x[2]]
                           ELSE IF x[2] = Root THEN DefaultOf(x[1])
                           ELSE GetterOf(World, x[1], Parent(x[2])))]_vars

\* The key chain 2 was set on node <<0>> below the root's key chain 1: the
\* nodes <<0>> and <<0, 0>> sign with 2, the root and <<1>> with 1.
C27_Witness ==
    /\ keyChain[Root] = 1 /\ keyChain[<<0>>] = 2 /\ keyChain[<<0, 0>>] = NoKeyChain
    /\ GetKeyChain(World, <<0, 0>>) = 2
    /\ GetKeyChain(World, <<1>>) = 1
    /\ GetFace(World, <<0, 0>>) = NoFace
    /\ GetMaxInterestLifetime(World, <<0, 0>>) = DefaultMaxInterestLifetime

(***************************************************************************)
(* C22.  setObject(namespace, obj) with an object of L > 0 bytes and the    *)
(* maximum segment payload length M attaches Data packets to the segment    *)
(* children 0 .. ceil(L/M) - 1 and to no other: segment i carries the       *)
(* bytes [i*M, min((i+1)*M, L)) of obj, every segment names the last        *)
(* segment as its final block, and the contents in numeric order, put       *)
(* together, are obj.                                                       *)
(***************************************************************************)
RECURSIVE Concatenation(_, _)
Concatenation(contents, count) ==
    IF count = 0 THEN <<>>
    ELSE Concatenation(contents, count - 1) \o contents[count - 1]

Min(a, b) == IF a < b THEN a ELSE b

C22_SegmentsCoverObject ==
    [][(lastOp'.op = "setObject" /\ lastOp'.hasKeyChain /\ Len(lastOp'.obj) > 0) =>
          LET obj == lastOp'.obj
              L == Len(obj)
              M == handler.maxSegmentPayloadLength
              count == (L + M - 1) \div M
              after == [nodes |-> nodes', data |-> data']
              contents == [i \in 0..(count - 1) |->
                              blobs'[data'[Append(ProduceNode, i)].content]]
          IN /\ SegmentChildren(after) = {Append(ProduceNode, i) : i \in 0..(count - 1)}
             /\ WithData(after) = SegmentChildren(after)
             /\ \A i \in 0..(count - 1) :
                   /\ contents[i] = SubSeq(obj, i * M + 1, Min((i + 1) * M, L))
                   /\ data'[Append(ProduceNode, i)].finalBlockId = count - 1
                   /\ data'[Append(ProduceNode, i)].name = Append(ProduceNode, i)
             /\ Concatenation(contents, count) = obj]_vars

\* A SegmentStreamHandler whose maximum payload length is 2 has made two
\* segments of the object 0 1 1: the bytes 0 1 and the byte 1.
C22_Witness ==
    /\ lastOp.op = "setObject" /\ lastOp.obj = <<0, 1, 1>> /\ lastOp.hasKeyChain
    /\ handler.maxSegmentPayloadLength = 2
    /\ WithData(World) = {<<0, 0>>, <<0, 1>>}
    /\ blobs[data[<<0, 0>>].content] = <<0, 1>>
    /\ blobs[data[<<0, 1>>].content] = <<1>>
    /\ data[<<0, 1>>].finalBlockId = 1
    /\ blobs[object[ProduceNode]] = <<0, 1, 1>>

(***************************************************************************)
(* C23.  setObject with an empty object makes one segment: the segment      *)
(* child 0 has a Data packet with empty content that names 0 as the final   *)
(* block.                                                                   *)
(***************************************************************************)
C23_EmptyObjectHasOneSegment ==
    (lastOp.op = "setObject" /\ lastOp.hasKeyChain /\ lastOp.obj = <<>>) =>
        /\ WithData(World) = {Append(ProduceNode, 0)}
        /\ blobs[data[Append(ProduceNode, 0)].content] = <<>>
        /\ data[Append(ProduceNode, 0)].finalBlockId = 0

(***************************************************************************)
(* C24.  For the segments and the _manifest that                            *)
(* setObject(namespace, obj, useSignatureManifest = True) has made,         *)
(* verifyWithManifest(namespace) returns True, and it returns False when    *)
(* the content of one segment has been altered since.                       *)
(***************************************************************************)
\* The tree under ProduceNode was made by setObject with a manifest: the
\* application attaches a manifest of its own only to segments signed one by one.
ProducedWithManifest ==
    /\ ManifestNode \in nodes
    /\ object[ManifestNode] # NoObject
    /\ \A n \in WithData(World) : data[n].signature = "DigestSha256"

C24_ManifestVerifiesUnlessAltered ==
    (lastOp.op = "verifyWithManifest" /\ ProducedWithManifest) =>
        lastOp.result = (IF \E n \in WithData(World) : IsAltered(World, n)
                         THEN "False" ELSE "True")

(***************************************************************************)
(* C25.  verifyWithManifest fails closed: it returns False when the length  *)
(* of the manifest is not a multiple of 32, when the manifest holds more or *)
(* fewer digests than the object has segments, and when the implicit digest *)
(* of a segment is not the one the manifest holds for it.                   *)
(***************************************************************************)
ManifestBytes == blobs[object[ManifestNode]]

C25_VerifyFailsClosed ==
    (lastOp.op = "verifyWithManifest" /\ ManifestNode \in nodes
        /\ object[ManifestNode] # NoObject) =>
        /\ Len(ManifestBytes) % SHA256_DIGEST_SIZE # 0 => lastOp.result = "False"
        /\ Len(ManifestBytes) \div SHA256_DIGEST_SIZE # Cardinality(WithData(World)) =>
               lastOp.result = "False"
        /\ (\E n \in WithData(World) :
               \/ Len(ManifestBytes) < (n[Len(n)] + 1) * SHA256_DIGEST_SIZE
               \/ SubSeq(ManifestBytes, n[Len(n)] * SHA256_DIGEST_SIZE + 1,
                         (n[Len(n)] + 1) * SHA256_DIGEST_SIZE) #
                      ImplicitDigest(World, data[n])) =>
               lastOp.result = "False"

(***************************************************************************)
(* C28.  getNextCallbackId returns strictly increasing IDs, also to threads *)
(* that call it at the same time: the counter is read, incremented and      *)
(* returned under the lock.  No two registrations, on whatever node or      *)
(* handler and of whatever kind, get the same ID, and removeCallback(id)    *)
(* removes at most one callback.                                            *)
(***************************************************************************)
\* The callbacks registered: every key of every dictionary, with its place.
Keyed(kind, keys) ==
    UNION {{<<kind, n, id>> : id \in Range(keys[n])} : n \in DOMAIN keys}

Registrations ==
    Keyed("state", onStateChangedCallbacks)
    \cup Keyed("validate", onValidateStateChangedCallbacks)
    \cup Keyed("needed", onObjectNeededCallbacks)
    \cup {<<"segment", Root, id>> : id \in Range(handler.onSegmentCallbacks)}

RegistrationsAfter ==
    Keyed("state", onStateChangedCallbacks')
    \cup Keyed("validate", onValidateStateChangedCallbacks')
    \cup Keyed("needed", onObjectNeededCallbacks')
    \cup {<<"segment", Root, id>> : id \in Range(handler'.onSegmentCallbacks)}

C28_CallbackIdsNeverRepeat ==
    /\ [](\A i, j \in 1..Len(threads.returned) :
             i < j => threads.returned[i] < threads.returned[j])
    /\ [](\A r1, r2 \in Registrations : r1[3] = r2[3] => r1 = r2)
    /\ [][lastOp'.op = "removeCallback" =>
            /\ RegistrationsAfter \subseteq Registrations
            /\ Cardinality(Registrations \ RegistrationsAfter) <= 1
            /\ \A r \in Registrations \ RegistrationsAfter : r[3] = lastOp'.id]_vars

\* Thread 2, which registers an onSegment callback, waits for the lock that
\* thread 1, which registers an onStateChanged callback on the root, holds
\* between its read and its write of the counter; an onObjectNeeded callback of
\* node <<0>> has the ID 1.
C28_Witness ==
    /\ threads.lock = 1 /\ threads.pc[1] = "write" /\ threads.pc[2] = "acquire"
    /\ threads.kind[1] = "state" /\ threads.kind[2] = "segment"
    /\ threads.returned = <<1>>
    /\ Registrations = {<<"needed", <<0>>, 1>>}

(***************************************************************************)
(* C30.  Within one request the state of a node only moves forward: once    *)
(* the object of the node has been set and its state is OBJECT_READY, the   *)
(* same request does not set the state back to DESERIALIZING or             *)
(* PRODUCING_OBJECT afterwards, also when an onObjectNeeded callback        *)
(* produces the object (serializeObject) during the callback and returns    *)
(* True; and when such a request is over, the state of the node is          *)
(* OBJECT_READY.                                                            *)
(***************************************************************************)
\* The _setState calls of the last operation, in order, as <<node, state>>.
SetStateCalls(events) ==
    SelectSeq(events, LAMBDA e : e.ev = "setState")

C30_StateOnlyMovesForward ==
    [][LET calls == SetStateCalls(log')
       IN \A i \in 1..Len(calls) :
             (calls[i].val = OBJECT_READY /\ object'[calls[i].node] # NoObject)
             => /\ \A j \in (i + 1)..Len(calls) :
                      calls[j].node = calls[i].node
                      => calls[j].val \notin {DESERIALIZING, PRODUCING_OBJECT}
                /\ state'[calls[i].node] = OBJECT_READY]_vars

(***************************************************************************)
(* C26.  A consumer that attaches a GeneralizedObjectHandler to a node and  *)
(* calls objectNeeded(), when the producer has published the _meta of the   *)
(* node with hasSegments and the segments 0..MaxSegment that each name      *)
(* MaxSegment as the final block, asks for no segment before it has asked   *)
(* for _meta, and its onGeneralizedObject callback is eventually called,    *)
(* once and not again, with the decoded content meta info and with the      *)
(* contents of the segments 0..MaxSegment, put together in numeric order,   *)
(* as the object of the node: in whatever order the answers arrive, and     *)
(* also when nothing answers the request for _manifest.                     *)
(***************************************************************************)
Requested(n) == n \in nodes /\ state[n] >= INTEREST_EXPRESSED

\* An interest for exactly this name waits in the face.
Expressed(n) == \E interest \in BagToSet(face.interests) : interest.name = n

C26_GeneralizedObjectIsReceived ==
    /\ [](\A k \in Segments :
             Expressed(Append(ConsumeNode, k))
             => Requested(Append(ConsumeNode, NAME_COMPONENT_META)))
    /\ [](Len(consumer.theReceivedObject) <= 1)
    /\ [](\A i \in 1..Len(consumer.theReceivedObject) :
             /\ consumer.theReceivedObject[i][1] = ProducerMeta
             /\ blobs[consumer.theReceivedObject[i][2]] =
                   Concatenation([k \in Segments |-> SegmentBytes(k)], MaxSegment + 1)
             /\ object[ConsumeNode] = consumer.theReceivedObject[i][2])
    /\ (consumer.started ~> Len(consumer.theReceivedObject) = 1)

(***************************************************************************)
(* C29.  SegmentStream.setInterestPipelineSize(n) with n >= 1 sets the      *)
(* pipeline size: getInterestPipelineSize() returns n afterwards, and the   *)
(* stream keeps up to n segment interests outstanding; with n < 1 the call  *)
(* raises and the size is as before.                                        *)
(***************************************************************************)
\* The segments the store holds as requested.
Outstanding == {k \in DOMAIN stream.store : stream.store[k] = "None"}

C29_PipelineSizeIsSet ==
    /\ \/ stream.interestPipelineSize = NewSegmentStream.interestPipelineSize
       \/ stream.interestPipelineSize \in PipelineArguments
    /\ lastOp.op = "setInterestPipelineSize" =>
          IF lastOp.size >= 1
          THEN stream.interestPipelineSize = lastOp.size /\ ~exception
          ELSE stream.interestPipelineSize = lastOp.before /\ exception
    /\ Cardinality(Outstanding) <= stream.interestPipelineSize

(***************************************************************************)
(* C31.  When the SegmentStreamHandler tops up its requests                 *)
(* (_requestNewSegments), every segment.objectNeeded() it makes is for a    *)
(* segment number no greater than the final segment number it knows, for a  *)
(* segment child that has no Data and whose state is below                  *)
(* INTEREST_EXPRESSED at the call; the calls of one top-up are in           *)
(* increasing order of segment number, all after the highest reported       *)
(* segment, and pass over no segment in between except one that has Data or *)
(* has been requested.                                                      *)
(***************************************************************************)
\* The segment.objectNeeded() calls of the last operation, in order.
SegmentRequests(events) ==
    SelectSeq(events, LAMBDA e : e.ev = "objectNeeded")

\* The segment number that a segment child is named by.
SegmentNumberOf(n) == n[Len(n)]

C31_TopUpRequestsNextSegments ==
    [][LET requests == SegmentRequests(log')
       IN /\ \A i \in 1..Len(requests) :
                /\ requests[i].fo # NoSegment
                   => SegmentNumberOf(requests[i].node) <= requests[i].fo
                /\ handler'.finalSegmentNumber # NoSegment
                   => SegmentNumberOf(requests[i].node) <= handler'.finalSegmentNumber
                /\ requests[i].id = 0
                /\ requests[i].val < INTEREST_EXPRESSED
                /\ SegmentNumberOf(requests[i].node) > handler'.maxReportedSegmentNumber
                /\ \A k \in (handler'.maxReportedSegmentNumber + 1)..
                            SegmentNumberOf(requests[i].node) :
                      /\ Append(handler'.namespace, k) \in nodes'
                      /\ \/ data'[Append(handler'.namespace, k)] # NoData
                         \/ state'[Append(handler'.namespace, k)] >= INTEREST_EXPRESSED
          /\ \A i, j \in 1..Len(requests) :
                i < j => SegmentNumberOf(requests[i].node) < SegmentNumberOf(requests[j].node)]_vars

\* A top-up after a segment has arrived that knows the final segment number,
\* passes over a segment the application has requested itself, and requests the
\* final segment.
C31_Witness ==
    /\ handler.finalSegmentNumber = MaxSegment
    /\ handler.maxReportedSegmentNumber = 0
    /\ Len(SegmentRequests(log)) = 1
    /\ SegmentNumberOf(SegmentRequests(log)[1].node) = MaxSegment
    /\ state[Append(StreamNode, 1)] = INTEREST_EXPRESSED

(***************************************************************************)
(* C32.  After handler = SegmentedObjectHandler() the handler exists, one   *)
(* onSegment callback is registered with its SegmentStreamHandler base,    *)
(* which is the handler's own _onSegment method, the constructor has       *)
(* raised nothing, and the handler is attached to no namespace; and any     *)
(* handler stays attached to no namespace until setNamespace (by the        *)
(* constructor of SegmentStreamHandler) or Namespace.setHandler is called.  *)
(***************************************************************************)
C32_ConstructedHandlerListensToItself ==
    /\ lastOp.op = "SegmentedObjectHandler"
       => /\ ~exception
          /\ handler.exists
          /\ handler.namespace = NoNamespace
          /\ Len(handler.onSegmentCallbacks) = 1
          /\ callback[handler.onSegmentCallbacks[1]] = HandlerMethod
    /\ (lastOp.op = "SegmentStreamHandler" /\ lastOp.node = NoNamespace)
       => handler.namespace = NoNamespace

(***************************************************************************)
(* C33.  When an incoming interest arrives at the registered prefix: if a   *)
(* node at or under the name of the interest has a Data packet that is not  *)
(* past its freshness expiry when the interest has MustBeFresh, that packet *)
(* is sent back at once (putData), the pending table is as before and no    *)
(* onObjectNeeded callback is called.  Otherwise every onObjectNeeded       *)
(* callback of the node of the interest and of its ancestors is called, the *)
(* state of the node is set to PRODUCING_OBJECT iff one of them returned    *)
(* True, and the interest was in the pending table before they were called: *)
(* when one of them calls serializeObject for the node during the call, its *)
(* packet is sent to that very interest, which then no longer waits in the  *)
(* table; when none does, the interest waits in the table.                  *)
(***************************************************************************)
\* Whether, before the step, a node at or under n has a Data packet that an
\* interest for n can be answered with.
HasMatchingData(n, mustBeFresh) ==
    \E m \in nodes :
        /\ IsPrefixOf(n, m)
        /\ data[m] # NoData
        /\ ~(mustBeFresh /\ freshnessExpiry[m] # NoTime /\ now >= freshnessExpiry[m])

\* The onObjectNeeded callbacks registered, before the step, on n and its ancestors.
AskedFor(n) ==
    UNION {Range(onObjectNeededCallbacks[a]) : a \in Range(Ancestors(n)) \cap nodes}

\* Whether the onObjectNeeded callback returns True.
ReturnsTrue(id) ==
    callback[id].owner = "producer" \/ (callback[id].owner = "app" /\ callback[id].produces)

C33_InterestAnsweredOrHandedToProducer ==
    [][lastOp'.op = "onInterest" =>
          LET n == lastOp'.node
              nonce == lastOp'.nonce
              waits == \E i \in 1..Len(table'.entries) : table'.entries[i].interest.nonce = nonce
              sent == \E i \in 1..Len(log') : log'[i].ev = "send" /\ log'[i].id = nonce
          IN IF HasMatchingData(n, lastOp'.mustBeFresh)
             THEN /\ \E i \in 1..Len(log') :
                        /\ log'[i].ev = "putData"
                        /\ log'[i].id = nonce
                        /\ IsPrefixOf(n, log'[i].node)
                        /\ log'[i].val = data[log'[i].node].content
                  /\ table'.entries = table.entries
                  /\ \A i \in 1..Len(log') : log'[i].ev \notin {"needed", "send", "setState"}
                  /\ state' = state
             ELSE /\ \A i \in 1..Len(log') : log'[i].ev # "putData"
                  /\ \A id \in AskedFor(n) :
                        \E i \in 1..Len(log') :
                            log'[i].ev = "needed" /\ log'[i].id = id /\ log'[i].node = n
                  /\ (\E i \in 1..Len(log') :
                          /\ log'[i].ev = "setState"
                          /\ log'[i].node = n
                          /\ log'[i].val = PRODUCING_OBJECT)
                     <=> (\E id \in AskedFor(n) : ReturnsTrue(id))
                  /\ IF \E id \in AskedFor(n) : callback[id].owner = "producer"
                     THEN sent /\ ~waits
                     ELSE waits /\ ~sent]_vars

(***************************************************************************)
(* C34.  A producer that has run main() of the stream producer has a        *)
(* GeneralizedObjectStreamHandler (the start raised nothing), and once it   *)
(* has published a sequence number, every incoming interest for _latest is  *)
(* answered during the handling of that interest, by putData of a cached    *)
(* packet or by the send of a new packet of a child of _latest that names   *)
(* the latest published sequence number and has the freshness period of     *)
(* _latest packets; while nothing is published, nothing is sent and the     *)
(* interest waits in the pending table.                                     *)
(***************************************************************************)
\* The latest sequence number the producer has published, -1 when none.
ProducedSequenceNumber ==
    IF \E k \in 0..MaxSequenceNumber : <<k>> \in nodes /\ object[<<k>>] # NoObject
    THEN CHOOSE k \in 0..MaxSequenceNumber :
             /\ <<k>> \in nodes /\ object[<<k>>] # NoObject
             /\ \A j \in 0..MaxSequenceNumber :
                   (<<j>> \in nodes /\ object[<<j>>] # NoObject) => j <= k
    ELSE -1

C34_LatestIsAnsweredAtOnce ==
    /\ [](lastOp.op = "startProducer" => ~exception)
    /\ [][(lastOp'.op = "onInterest" /\ lastOp'.node = LatestNode) =>
             LET nonce == lastOp'.nonce
                 waits == \E i \in 1..Len(table'.entries) :
                              table'.entries[i].interest.nonce = nonce
                 answers == {i \in 1..Len(log') :
                                log'[i].ev \in {"send", "putData"} /\ log'[i].id = nonce}
             IN IF ProducedSequenceNumber >= 0
                THEN /\ answers # {}
                     /\ ~waits
                     /\ \A i \in answers :
                           /\ Parent(log'[i].node) = LatestNode
                           /\ log'[i].ev = "send" =>
                                 /\ log'[i].node \notin nodes
                                 /\ data'[log'[i].node].content = ProducedSequenceNumber
                                 /\ data'[log'[i].node].freshnessPeriod =
                                        LatestPacketFreshnessPeriod
                ELSE answers = {} /\ waits]_vars

(***************************************************************************)
(* C35.  Whenever the state of a node is DATA_RECEIVED, the node has a Data *)
(* packet attached; also when the Data that answers the interest of the     *)
(* node has a longer name than the node.                                    *)
(***************************************************************************)
C35_DataReceivedHasData ==
    \A n \in nodes : state[n] = DATA_RECEIVED => data[n] # NoData

(***************************************************************************)
(* C36.  A node is INTEREST_EXPRESSED only while an interest of the node    *)
(* waits in the face: once the face has delivered Data, the final timeout   *)
(* or a network nack for it, the node has left INTEREST_EXPRESSED, and      *)
(* every node that is INTEREST_EXPRESSED eventually leaves it; also when    *)
(* the node holds Data that is no longer fresh and was requested again      *)
(* with mustBeFresh.                                                        *)
(***************************************************************************)
C36_RequestLeavesInterestExpressed ==
    /\ [](\A n \in nodes : state[n] = INTEREST_EXPRESSED => Waits(n))
    /\ \A n \in {Root} \cup RefreshNames :
          (n \in nodes /\ state[n] = INTEREST_EXPRESSED)
          ~> (state[n] # INTEREST_EXPRESSED)

(***************************************************************************)
(* C37.  When every segment interest is answered with Data that names       *)
(* MaxSegment as the final block, a SegmentStreamHandler that is attached   *)
(* and has a segment interest waiting eventually reports the end of the     *)
(* stream: every onSegment callback has been given the segments             *)
(* 0..MaxSegment and then None; and an application that constructs a        *)
(* SegmentedObjectHandler for the stream eventually has the object of the   *)
(* stream node set, with the node OBJECT_READY; whatever the pipeline size  *)
(* and the initial interest count.                                          *)
(***************************************************************************)
\* A segment interest waits in the face.
SegmentInterestWaits ==
    \E pending \in BagToSet(face.interests) :
        /\ Len(pending.name) = Len(StreamNode) + 1
        /\ pending.name[Len(pending.name)] \in Segments

\* The handler has reported the end of the stream.
EndOfStreamReported ==
    /\ handler.maxReportedSegmentNumber = MaxSegment
    /\ \A id \in DOMAIN reported : reported[id] = ExpectedSegments

C37_StreamEndsAndObjectIsSet ==
    /\ (Attached /\ SegmentInterestWaits) ~> EndOfStreamReported
    /\ (lastOp.op = "SegmentedObjectHandler")
       ~> (state[StreamNode] = OBJECT_READY /\ object[StreamNode] # NoObject)

(***************************************************************************)
(* C38.  The SegmentStreamHandler never calls objectNeeded() on a segment   *)
(* child while the number of segment children of its node that are         *)
(* requested and not received (state >= INTEREST_EXPRESSED and no Data) is  *)
(* at the budget in force: initialInterestCount in objectNeeded() on the    *)
(* handler's node, interestPipelineSize after the arrival of a segment.     *)
(* Every request adds one such child, so after an operation in which the    *)
(* handler has made requests their number is at most the budget in force,   *)
(* and so at most the larger of the two values.                             *)
(***************************************************************************)
\* The segment children of the handler's node that are requested and not received.
RequestedNotReceived ==
    {k \in Segments : /\ Append(StreamNode, k) \in nodes
                      /\ data[Append(StreamNode, k)] = NoData
                      /\ state[Append(StreamNode, k)] >= INTEREST_EXPRESSED}

\* The last operation called the handler's _onObjectNeeded for its own node.
InitialRequest ==
    \E i \in 1..Len(log) :
        log[i].ev = "needed" /\ log[i].at = StreamNode /\ log[i].node = StreamNode

\* The argument of _requestNewSegments in the last operation.
BudgetInForce ==
    IF InitialRequest THEN handler.initialInterestCount ELSE handler.interestPipelineSize

LargerBudget ==
    IF handler.initialInterestCount > handler.interestPipelineSize
    THEN handler.initialInterestCount
    ELSE handler.interestPipelineSize

C38_RequestsStayWithinBudget ==
    SegmentRequests(log) # <<>>
    => /\ Cardinality(RequestedNotReceived) <= BudgetInForce
       /\ Cardinality(RequestedNotReceived) <= LargerBudget

\* After the arrival of a segment the handler has topped up to a pipeline of
\* two with two requests at once, and the initial request was for fewer.
C38_Witness ==
    /\ Len(SegmentRequests(log)) >= 1
    /\ ~InitialRequest
    /\ handler.interestPipelineSize = 2
    /\ Cardinality(RequestedNotReceived) = 2

(***************************************************************************)
(* C39.  On a node with no handler and no decryptor whose Data, if it has   *)
(* any, was attached by serializeObject, a call of serializeObject leaves   *)
(* the node so that, when it has both Data and an object, the object is the *)
(* content of the Data; also when the call is a second one on that node     *)
(* with a different object.                                                 *)
(***************************************************************************)
\* The node has no Data, or the operation before was serializeObject on it.
OnlySerialized(n) ==
    \/ data[n] = NoData
    \/ lastOp.op = "serializeObject" /\ lastOp.node = n

C39_ObjectIsContentOfData ==
    [][\A n \in nodes :
          /\ lastOp'.op = "serializeObject"
          /\ lastOp'.node = n
          /\ OnlySerialized(n)
          /\ handler.namespace # n
          /\ decryptor[n] = NoDecryptor
          /\ data'[n] # NoData
          /\ object'[n] # NoObject
          => object'[n] = data'[n].content]_vars

(***************************************************************************)
(* C40.  objectNeeded() on a node that is INTEREST_EXPRESSED and has no     *)
(* Data expresses no interest: the interests that wait in the face stay as  *)
(* they are; and at every time at most one interest waits in the face for   *)
(* the name of any one node.                                                *)
(***************************************************************************)
\* How many interests for the name of node n wait in the face.
InterestsFor(n) ==
    BagCardinality([i \in {j \in BagToSet(face.interests) : j.name = n}
                       |-> CopiesIn(i, face.interests)])

C40_NoSecondInterest ==
    /\ [][\A n \in nodes :
             /\ lastOp'.op = "objectNeeded"
             /\ lastOp'.node = n
             /\ state[n] = INTEREST_EXPRESSED
             /\ data[n] = NoData
             => face'.interests = face.interests]_vars
    /\ [](\A n \in nodes : InterestsFor(n) <= 1)

====
